---- MODULE Spec2Model ----
(***************************************************************************)
(* Request lifecycle of the employee-ledger: the Apps Script relay         *)
(* (doPost / doGet over the Logs sheet), the manager dashboard's decision  *)
(* flow, the client's read layer with its localStorage caches, the leave   *)
(* form and the client's dispatch functions.                               *)
(***************************************************************************)
EXTENDS Integers, Sequences, FiniteSets, TLC

VARIABLES sheet, taskLogs, post, get, env, remote, dash, hist, ls, calls, ev, lastOk, resolved,
          form, disp, pure

vars == <<sheet, taskLogs, post, get, env, remote, dash, hist, ls, calls, ev, lastOk, resolved,
          form, disp, pure>>

\* the relay, the dashboard with its environment, the read layer, the
\* leave form with the dispatch functions and the functions applied alone
RelayVars == <<sheet, taskLogs, post, get>>

ClientVars == <<env, remote, dash, hist>>

ReadVars == <<ls, calls, ev, lastOk, resolved>>

FrontVars == <<form, disp, pure>>

(***************************************************************************)
(* Bounds                                                                  *)
(***************************************************************************)
MaxRows == 2
MaxRefresh == 3
MaxInFlight == 2
MaxCalls == 2
MaxFraction == 9
MaxWrites == 3
MaxSort == 4
MaxGridRows == 3

(***************************************************************************)
(* Strings.  Cells and parameters are strings; the conversions the code    *)
(* applies to them are computed on the strings the model uses.             *)
(***************************************************************************)
Trim(s) ==
    CASE s = " REQ-A"      -> "REQ-A"
      [] s = " ok "        -> "ok"
      [] s = " "           -> ""
      [] s = "Asha@x.co "  -> "Asha@x.co"
      [] s = " Casual Leave" -> "Casual Leave"
      [] OTHER             -> s

ToUpperCase(s) ==
    CASE s = "approved" -> "APPROVED"
      [] s = "approve"  -> "APPROVE"
      [] s = "hold"     -> "HOLD"
      [] OTHER          -> s

ToLowerCase(s) ==
    CASE s = "Decision"  -> "decision"
      [] s = "DECISION"  -> "decision"
      [] s = "S_NO"      -> "s_no"
      [] s = "EMP_CODE"  -> "emp_code"
      [] s = "EMP_NAME"  -> "emp_name"
      [] s = "ROLE"      -> "role"
      [] s = "EMAIL_ID"  -> "email_id"
      [] s = "Asha@x.co" -> "asha@x.co"
      [] s = "Employee"  -> "employee"
      [] s = "Manager"   -> "manager"
      [] s = "Timestamp" -> "timestamp"
      [] s = "Permission Type" -> "permission type"
      [] s = "Leave Type" -> "leave type"
      [] s = "Permission" -> "permission"
      [] s = "FN Permission" -> "fn permission"
      [] s = "AN Permission" -> "an permission"
      [] s = "In Between Permission" -> "in between permission"
      [] s = "Casual Leave" -> "casual leave"
      [] s = "Employee_Code" -> "employee_code"
      [] s = "Name"      -> "name"
      [] s = "Role"      -> "role"
      [] s = "Email"     -> "email"
      [] s = "ASHA@X.CO" -> "asha@x.co"
      [] s = "Task"      -> "task"
      [] OTHER           -> s

\* JavaScript truthiness of a string value
Truthy(s) == s # ""

\* a || b on strings
OrElse(a, b) == IF Truthy(a) THEN a ELSE b

(***************************************************************************)
(* The Logs sheet: a sequence of rows of NumCols cells, row 1 the header.  *)
(***************************************************************************)
NumCols == 16

desiredHeader ==
    << "Timestamp", "Request ID", "Type", "Status", "Employee Name",
       "Employee Email", "Employee ID", "Dates", "Reason", "Manager Comment",
       "Manager Action", "Permission Type", "Leave Type", "Requested InTime",
       "Requested OutTime", "Alternate Staff" >>

BlankRow == [i \in 1..NumCols |-> ""]

\* the header as the 15-column version of the script left it
HeaderA2O == [i \in 1..NumCols |-> IF i <= 15 THEN desiredHeader[i] ELSE ""]

\* sheet.getRange(r, c).setValue(v)
SetValue(s, r, c, v) == [s EXCEPT ![r][c] = v]

\* sheet.appendRow(cells)
AppendRow(s, cells) == Append(s, cells)

ensureLogHeader_(s) ==
    LET header == s[1]
        hasAnyHeader == \E i \in 1..NumCols : Truthy(header[i]) /\ Truthy(Trim(header[i]))
    IN  IF ~hasAnyHeader
        THEN [s EXCEPT ![1] = desiredHeader]
        ELSE [s EXCEPT ![1] = [i \in 1..NumCols |->
                 IF ~Truthy(header[i]) \/ ~Truthy(Trim(header[i]))
                 THEN desiredHeader[i] ELSE header[i]]]

\* first data row (2..lastRow) whose trimmed column-B cell equals requestId, or -1
findLogRowByRequestId_(s, requestId) ==
    LET lastRow == Len(s)
        hits == {r \in 2..lastRow : Trim(OrElse(s[r][2], "")) = requestId}
    IN  IF lastRow < 2 \/ hits = {} THEN -1
        ELSE CHOOSE r \in hits : \A q \in hits : r <= q

(***************************************************************************)
(* The TaskLogs sheet: NoSheet while the spreadsheet has no sheet of that  *)
(* name, otherwise its rows of nine cells, the header row first.  Numbers  *)
(* are kept as their decimal text.                                         *)
(***************************************************************************)
NumTaskCols == 9

taskHeader ==
    << "Timestamp", "Employee Name", "Employee Email", "Company",
       "Platform", "Fulfillment", "Task", "Quantity", "Claimed Quantity" >>

NoSheet == <<>>

BlankTaskRow == [i \in 1..NumTaskCols |-> ""]

ensureTaskLogHeader_(t) ==
    LET header == t[1]
        hasAnyHeader == \E i \in 1..NumTaskCols : Truthy(header[i]) /\ Truthy(Trim(header[i]))
    IN  IF ~hasAnyHeader
        THEN [t EXCEPT ![1] = taskHeader]
        ELSE [t EXCEPT ![1] = [i \in 1..NumTaskCols |->
                 IF ~Truthy(header[i]) \/ ~Truthy(Trim(header[i]))
                 THEN taskHeader[i] ELSE header[i]]]

\* the sheet is inserted when it is missing, its header is completed, and
\* one row is appended; now is Date.now()
logTaskEntry_(t, data, now) ==
    LET taskSheet == IF t = NoSheet THEN <<BlankTaskRow>> ELSE t
    IN  Append(ensureTaskLogHeader_(taskSheet),
               << OrElse(data.timestamp, now),
                  OrElse(data.employeeName, ""),
                  OrElse(data.employeeEmail, ""),
                  OrElse(data.company, ""),
                  OrElse(data.platform, ""),
                  OrElse(data.fulfillment, ""),
                  OrElse(data.task, ""),
                  OrElse(data.quantity, "0"),
                  OrElse(data.claimedQuantity, "0") >>)

\* what doPost leaves of the TaskLogs sheet: only a body of type "task"
\* reaches logTaskEntry_
doPostTaskLogs(t, e, now) ==
    IF e.hasData /\ ToLowerCase(OrElse(e.data.type, "request")) = "task"
    THEN logTaskEntry_(t, e.data, now)
    ELSE t

(***************************************************************************)
(* One execution of a handler: its position, the values it computed, the   *)
(* cells it has written so far, the mail it has sent and its response.     *)
(***************************************************************************)
Idle ==
    [pc |-> "idle", kind |-> "", requestId |-> "", status |-> "",
     managerComment |-> "", managerAction |-> "", rowIndex |-> 0,
     employeeEmail |-> "", written |-> <<>>, mails |-> <<>>,
     response |-> "", cors |-> FALSE]

\* return: the text output, inside withCors_(...) or not
Respond(p, text, withCors) == [p EXCEPT !.pc = "done", !.response = text, !.cors = withCors]

\* withCors_(output): the three Access-Control headers are set only when the
\* output object offers setHeader; otherwise the output is returned as it is
withCors_(output, hasSetHeader) == [output EXCEPT !.cors = output.cors /\ hasSetHeader]

managerEmail == "ganesh.m@datapower.co.in"

\* new Date() of the n-th appended row
TimestampOf(n) == CASE n = 1 -> "2024-01-01T09:00" [] n = 2 -> "2024-01-02T09:00"
                    [] n = 3 -> "2024-01-03T09:00" [] OTHER -> "2024-01-04T09:00"

\* the row with the dates joined by " to "
NewRequestRow_DatesJoinedByTo(s, data, requestId) ==
    << TimestampOf(Len(s)), requestId, "request", OrElse(data.status, "PENDING"),
       data.employeeName, data.employeeEmail, data.employeeId,
       data.startDate \o " to " \o data.endDate, data.reason,
       OrElse(data.managerComment, ""), "",
       OrElse(data.permissionType, ""), OrElse(data.leaveType, ""),
       OrElse(data.requestedInTime, ""), OrElse(data.requestedOutTime, ""),
       OrElse(data.alternateStaff, "") >>

\* the row doPost appends for a new leave request
NewRequestRow(s, data, requestId) ==
    << TimestampOf(Len(s)), requestId, "request", OrElse(data.status, "PENDING"),
       data.employeeName, data.employeeEmail, data.employeeId,
       data.startDate \o " - " \o data.endDate, data.reason,
       OrElse(data.managerComment, ""), "",
       OrElse(data.permissionType, ""), OrElse(data.leaveType, ""),
       OrElse(data.requestedInTime, ""), OrElse(data.requestedOutTime, ""),
       OrElse(data.alternateStaff, "") >>

\* doPost up to its first write to a data row.  e.hasData is the request
\* carrying a body; minted is the value newRequestId_() returns.
PostBegin(s, e, minted) ==
    IF ~e.hasData
    THEN << s, Respond([Idle EXCEPT !.kind = "nodata"], "Error: No POST data received.", TRUE) >>
    ELSE
    LET data == e.data
        payloadType == ToLowerCase(OrElse(data.type, "request"))
        s1 == ensureLogHeader_(s)
    IN  IF payloadType = "task"
        THEN << s, Respond([Idle EXCEPT !.kind = "task"], "OK", TRUE) >>
        ELSE
        IF payloadType = "decision"
        THEN LET requestId == Trim(OrElse(data.requestId, ""))
                 rowIndex == findLogRowByRequestId_(s1, requestId)
                 status == OrElse(ToUpperCase(data.status), "PENDING")
                 p0 == [Idle EXCEPT !.kind = "decision", !.requestId = requestId]
             IN  IF ~Truthy(requestId)
                 THEN << s1, Respond(p0, "Error: Missing requestId", TRUE) >>
                 ELSE IF rowIndex = -1
                 THEN << s1, Respond(p0, "Error: Request ID not found", TRUE) >>
                 ELSE << s1, [p0 EXCEPT !.pc = "setStatus",
                                        !.rowIndex = rowIndex,
                                        !.employeeEmail = s1[rowIndex][6],
                                        !.status = status,
                                        !.managerComment = Trim(data.managerComment),
                                        !.managerAction =
                                            IF status = "APPROVED" THEN "APPROVE"
                                            ELSE IF status = "REJECTED" THEN "DENY" ELSE ""] >>
        ELSE << AppendRow(s1, NewRequestRow(s1, data, minted)),
                [Idle EXCEPT !.pc = "mailManager", !.kind = "request",
                             !.requestId = minted, !.rowIndex = Len(s1) + 1] >>

\* doPost with the comment written one column to the left (Reason)
PostStep_CommentInReasonColumn(s, p, mailOk) ==
    CASE p.pc = "setStatus" ->
           << SetValue(s, p.rowIndex, 4, p.status),
              [p EXCEPT !.pc = "setComment", !.written = Append(@, 4)] >>
      [] p.pc = "setComment" ->
           << SetValue(s, p.rowIndex, 9, p.managerComment),
              [p EXCEPT !.pc = "setAction", !.written = Append(@, 9)] >>
      [] p.pc = "setAction" ->
           << SetValue(s, p.rowIndex, 11, p.managerAction),
              [p EXCEPT !.pc = "mail", !.written = Append(@, 11)] >>
      [] p.pc = "mail" ->
           IF ~Truthy(p.employeeEmail) THEN << s, Respond(p, "OK", TRUE) >>
           ELSE IF mailOk
           THEN << s, Respond([p EXCEPT !.mails = Append(@, p.employeeEmail)], "OK", TRUE) >>
           ELSE << s, Respond(p, "Error: mail", TRUE) >>
      [] p.pc = "mailManager" ->
           IF mailOk
           THEN << s, Respond([p EXCEPT !.mails = Append(@, managerEmail)], "OK", TRUE) >>
           ELSE << s, Respond(p, "Error: mail", TRUE) >>
      [] OTHER -> << s, p >>

\* doPost with the requester mailed before the action cell is written
PostStep_MailBeforeLastWrite(s, p, mailOk) ==
    CASE p.pc = "setStatus" ->
           << SetValue(s, p.rowIndex, 4, p.status),
              [p EXCEPT !.pc = "setComment", !.written = Append(@, 4)] >>
      [] p.pc = "setComment" ->
           << SetValue(s, p.rowIndex, 10, p.managerComment),
              [p EXCEPT !.pc = "mail", !.written = Append(@, 10)] >>
      [] p.pc = "mail" ->
           IF Truthy(p.employeeEmail) /\ mailOk
           THEN << s, [p EXCEPT !.pc = "setAction", !.mails = Append(@, p.employeeEmail)] >>
           ELSE << s, [p EXCEPT !.pc = "setAction"] >>
      [] p.pc = "setAction" ->
           << SetValue(s, p.rowIndex, 11, p.managerAction),
              Respond([p EXCEPT !.written = Append(@, 11)], "OK", TRUE) >>
      [] p.pc = "mailManager" ->
           IF mailOk
           THEN << s, Respond([p EXCEPT !.mails = Append(@, managerEmail)], "OK", TRUE) >>
           ELSE << s, Respond(p, "Error: mail", TRUE) >>
      [] OTHER -> << s, p >>

\* doPost with the comment added to what the cell holds
PostStep_CommentAppended(s, p, mailOk) ==
    CASE p.pc = "setStatus" ->
           << SetValue(s, p.rowIndex, 4, p.status),
              [p EXCEPT !.pc = "setComment", !.written = Append(@, 4)] >>
      [] p.pc = "setComment" ->
           << SetValue(s, p.rowIndex, 10, s[p.rowIndex][10] \o p.managerComment),
              [p EXCEPT !.pc = "setAction", !.written = Append(@, 10)] >>
      [] p.pc = "setAction" ->
           << SetValue(s, p.rowIndex, 11, p.managerAction),
              [p EXCEPT !.pc = "mail", !.written = Append(@, 11)] >>
      [] p.pc = "mail" ->
           IF ~Truthy(p.employeeEmail) THEN << s, Respond(p, "OK", TRUE) >>
           ELSE IF mailOk
           THEN << s, Respond([p EXCEPT !.mails = Append(@, p.employeeEmail)], "OK", TRUE) >>
           ELSE << s, Respond(p, "Error: mail", TRUE) >>
      [] p.pc = "mailManager" ->
           IF mailOk
           THEN << s, Respond([p EXCEPT !.mails = Append(@, managerEmail)], "OK", TRUE) >>
           ELSE << s, Respond(p, "Error: mail", TRUE) >>
      [] OTHER -> << s, p >>

\* one further statement of doPost; mailOk is MailApp.sendEmail returning
\* normally (it throws otherwise, and the handler's catch answers)
PostStep(s, p, mailOk) ==
    CASE p.pc = "setStatus" ->
           << SetValue(s, p.rowIndex, 4, p.status),
              [p EXCEPT !.pc = "setComment", !.written = Append(@, 4)] >>
      [] p.pc = "setComment" ->
           << SetValue(s, p.rowIndex, 10, p.managerComment),
              [p EXCEPT !.pc = "setAction", !.written = Append(@, 10)] >>
      [] p.pc = "setAction" ->
           << SetValue(s, p.rowIndex, 11, p.managerAction),
              [p EXCEPT !.pc = "mail", !.written = Append(@, 11)] >>
      [] p.pc = "mail" ->
           IF ~Truthy(p.employeeEmail) THEN << s, Respond(p, "OK", TRUE) >>
           ELSE IF mailOk
           THEN << s, Respond([p EXCEPT !.mails = Append(@, p.employeeEmail)], "OK", TRUE) >>
           ELSE << s, Respond(p, "Error: mail", TRUE) >>
      [] p.pc = "mailManager" ->
           IF mailOk
           THEN << s, Respond([p EXCEPT !.mails = Append(@, managerEmail)], "OK", TRUE) >>
           ELSE << s, Respond(p, "Error: mail", TRUE) >>
      [] OTHER -> << s, p >>

\* doGet up to its first write.  q is e.parameter.
GetBegin(s, q) ==
    IF q.method = "OPTIONS" THEN << s, Respond([Idle EXCEPT !.kind = "options"], "", TRUE) >>
    ELSE IF ~Truthy(q.action) \/ ~Truthy(q.rid)
    THEN << s, Respond([Idle EXCEPT !.kind = "invalid"], "<h1>Invalid Request</h1>", FALSE) >>
    ELSE
    LET action == ToUpperCase(OrElse(q.action, ""))
        rid == q.rid
        hits == {i \in 2..Len(s) : s[i][2] = rid}
        g0 == [Idle EXCEPT !.kind = "decision", !.requestId = rid, !.managerAction = action,
                           !.status = IF action = "APPROVE" THEN "APPROVED" ELSE "REJECTED"]
    IN  IF hits = {}
        THEN << s, Respond(g0, "<h1>Request Not Found</h1>", FALSE) >>
        ELSE LET i == CHOOSE r \in hits : \A r2 \in hits : r <= r2
             IN  << s, [g0 EXCEPT !.pc = "setStatus", !.rowIndex = i,
                                  !.employeeEmail = s[i][6]] >>

\* doGet writing only while the row is still PENDING
GetStep_OnlyWhilePending(s, g, mailOk) ==
    CASE g.pc = "setStatus" ->
           IF s[g.rowIndex][4] # "PENDING" THEN << s, Respond(g, "<h1>Success</h1>", FALSE) >>
           ELSE << SetValue(s, g.rowIndex, 4, g.status),
                   [g EXCEPT !.pc = "setAction", !.written = Append(@, 4)] >>
      [] g.pc = "setAction" ->
           << SetValue(s, g.rowIndex, 11, g.managerAction),
              [g EXCEPT !.pc = "mail", !.written = Append(@, 11)] >>
      [] g.pc = "mail" ->
           IF ~Truthy(g.employeeEmail) THEN << s, Respond(g, "<h1>Success</h1>", FALSE) >>
           ELSE IF mailOk
           THEN << s, Respond([g EXCEPT !.mails = Append(@, g.employeeEmail)], "<h1>Success</h1>", FALSE) >>
           ELSE << s, Respond(g, "Exception", FALSE) >>
      [] OTHER -> << s, g >>

\* doGet taking its two cells back when the mail cannot be sent
GetStep_UndoOnMailFailure(s, g, mailOk) ==
    CASE g.pc = "setStatus" ->
           << SetValue(s, g.rowIndex, 4, g.status),
              [g EXCEPT !.pc = "setAction", !.written = Append(@, 4)] >>
      [] g.pc = "setAction" ->
           << SetValue(s, g.rowIndex, 11, g.managerAction),
              [g EXCEPT !.pc = "mail", !.written = Append(@, 11)] >>
      [] g.pc = "mail" ->
           IF ~Truthy(g.employeeEmail) THEN << s, Respond(g, "<h1>Success</h1>", FALSE) >>
           ELSE IF mailOk
           THEN << s, Respond([g EXCEPT !.mails = Append(@, g.employeeEmail)], "<h1>Success</h1>", FALSE) >>
           ELSE << SetValue(SetValue(s, g.rowIndex, 4, "PENDING"), g.rowIndex, 11, ""),
                   Respond(g, "Exception", FALSE) >>
      [] OTHER -> << s, g >>

\* one further statement of doGet; a throwing sendEmail is not caught there
GetStep(s, g, mailOk) ==
    CASE g.pc = "setStatus" ->
           << SetValue(s, g.rowIndex, 4, g.status),
              [g EXCEPT !.pc = "setAction", !.written = Append(@, 4)] >>
      [] g.pc = "setAction" ->
           << SetValue(s, g.rowIndex, 11, g.managerAction),
              [g EXCEPT !.pc = "mail", !.written = Append(@, 11)] >>
      [] g.pc = "mail" ->
           IF ~Truthy(g.employeeEmail) THEN << s, Respond(g, "<h1>Success</h1>", FALSE) >>
           ELSE IF mailOk
           THEN << s, Respond([g EXCEPT !.mails = Append(@, g.employeeEmail)], "<h1>Success</h1>", FALSE) >>
           ELSE << s, Respond(g, "Exception", FALSE) >>
      [] OTHER -> << s, g >>

\* a handler run to its response without interruption, every mail delivered
RECURSIVE RunPost(_, _)
RunPost(s, p) == IF p.pc = "done" THEN << s, p >>
                 ELSE LET n == PostStep(s, p, TRUE) IN RunPost(n[1], n[2])

RECURSIVE RunGet(_, _)
RunGet(s, g) == IF g.pc = "done" THEN << s, g >>
                ELSE LET n == GetStep(s, g, TRUE) IN RunGet(n[1], n[2])

(***************************************************************************)
(* Requests the relay can receive                                          *)
(***************************************************************************)
\* values Math.random().toString(36).slice(2, 10).toUpperCase() can yield
IdSpace == {"REQ-A", "REQ-B"}

RidInputs == IdSpace \cup {" REQ-A", ""}

BaseData ==
    [type |-> "request", requestId |-> "", status |-> "", managerComment |-> "",
     employeeName |-> "Asha", employeeEmail |-> "asha@x.co", employeeId |-> "E7",
     startDate |-> "2024-01-10", endDate |-> "2024-01-12", reason |-> "family",
     permissionType |-> "leave", leaveType |-> "Casual Leave",
     requestedInTime |-> "", requestedOutTime |-> "", alternateStaff |-> ""]

\* new-request bodies: with or without a manager comment, and one without
\* an employee email
RequestPayloads ==
    { [BaseData EXCEPT !.type = ty, !.managerComment = mc] :
        ty \in {"request", ""}, mc \in {"", "ok"} }
    \cup { [BaseData EXCEPT !.status = "PENDING", !.employeeEmail = ""] }

DecisionPayloads ==
    { [BaseData EXCEPT !.type = "decision", !.requestId = rid, !.status = st, !.managerComment = mc] :
        rid \in RidInputs, st \in {"APPROVED", "REJECTED", ""}, mc \in {"", " ok "} }
    \cup { [BaseData EXCEPT !.type = "Decision", !.requestId = "REQ-A", !.status = "approved"],
           [BaseData EXCEPT !.type = "decision", !.requestId = "REQ-A", !.status = "hold"] }

GetParameters ==
    [method : {""}, action : {"APPROVE", "DENY", ""}, rid : RidInputs]
    \cup { [method |-> "OPTIONS", action |-> "", rid |-> ""],
           [method |-> "", action |-> "approve", rid |-> "REQ-A"],
           [method |-> "", action |-> "hold", rid |-> "REQ-A"] }

DataRows(s) == 2..Len(s)

(***************************************************************************)
(* The relay as a state machine                                            *)
(***************************************************************************)
\* the Logs sheet before the first request: empty, with the full header, or
\* with the header the 15-column version of the script left
InitSheets == { <<BlankRow>>, <<desiredHeader>>, <<HeaderA2O>> }

RelayInit ==
    /\ sheet \in InitSheets
    /\ taskLogs = NoSheet
    /\ post = Idle
    /\ get = Idle

\* the relay is not executing a handler
Quiet == post.pc \in {"idle", "done"} /\ get.pc \in {"idle", "done"}

\* a POST arrives without a body
PostNoData ==
    /\ Quiet
    /\ \E setHeader \in BOOLEAN :
         LET n == PostBegin(sheet, [hasData |-> FALSE, data |-> BaseData], "")
         IN  sheet' = n[1] /\ post' = withCors_(n[2], setHeader)
    /\ get' = Idle
    /\ UNCHANGED <<taskLogs, ClientVars, ReadVars, FrontVars>>

\* a new leave request is posted
PostNewRequest ==
    /\ Quiet
    /\ Len(sheet) - 1 < MaxRows
    /\ \E data \in RequestPayloads, minted \in IdSpace, setHeader \in BOOLEAN :
         LET n == PostBegin(sheet, [hasData |-> TRUE, data |-> data], minted)
         IN  sheet' = n[1] /\ post' = withCors_(n[2], setHeader)
    /\ get' = Idle
    /\ UNCHANGED <<taskLogs, ClientVars, ReadVars, FrontVars>>

\* a decision is posted
PostDecision ==
    /\ Quiet
    /\ \E data \in DecisionPayloads, setHeader \in BOOLEAN :
         LET n == PostBegin(sheet, [hasData |-> TRUE, data |-> data], "")
         IN  sheet' = n[1] /\ post' = withCors_(n[2], setHeader)
    /\ get' = Idle
    /\ UNCHANGED <<taskLogs, ClientVars, ReadVars, FrontVars>>

\* doPost executes its next statement
PostNext ==
    /\ post.pc \notin {"idle", "done"}
    /\ \E mailOk \in BOOLEAN, setHeader \in BOOLEAN :
         LET n == PostStep(sheet, post, mailOk)
         IN  sheet' = n[1] /\ post' = withCors_(n[2], setHeader)
    /\ UNCHANGED get
    /\ UNCHANGED <<taskLogs, ClientVars, ReadVars, FrontVars>>

\* a GET arrives
GetArrive ==
    /\ Quiet
    /\ \E q \in GetParameters, setHeader \in BOOLEAN :
         LET n == GetBegin(sheet, q)
         IN  sheet' = n[1] /\ get' = withCors_(n[2], setHeader)
    /\ post' = Idle
    /\ UNCHANGED <<taskLogs, ClientVars, ReadVars, FrontVars>>

\* doGet executes its next statement
GetNext ==
    /\ get.pc \notin {"idle", "done"}
    /\ \E mailOk \in BOOLEAN, setHeader \in BOOLEAN :
         LET n == GetStep(sheet, get, mailOk)
         IN  sheet' = n[1] /\ get' = withCors_(n[2], setHeader)
    /\ UNCHANGED post
    /\ UNCHANGED <<taskLogs, ClientVars, ReadVars, FrontVars>>

RelayNext ==
    \/ PostNoData
    \/ PostNewRequest
    \/ PostDecision
    \/ PostNext
    \/ GetArrive
    \/ GetNext

(***************************************************************************)
(* The manager dashboard: the displayed records, the list-refresh effect   *)
(* and handleAction with its request-scoped in-flight flag.                *)
(***************************************************************************)
\* getEnv(): whether SHEET_ID / SHEETS_API_KEY and SHEET_LOG_WEBHOOK are set
Envs == [sheets : BOOLEAN, logWebhook : BOOLEAN]

\* the log rows as the remote table holds them: requestId -> status
RemoteInit == [id \in IdSpace |-> "PENDING"]

\* what a successful fetchLogRecords() returns for the remote table
LogRecordsOf(r) == {[requestId |-> id, status |-> r[id]] : id \in IdSpace}

\* the component after mount: loading, the first fetch of the effect running;
\* applied is the run whose response was put on display last (-1: none yet)
DashInit ==
    [records |-> {}, isLoading |-> TRUE, error |-> "", processingId |-> "",
     refreshSeq |-> 0, prompting |-> <<>>, inflight |-> <<>>,
     runs |-> << [seq |-> 0, cancelled |-> FALSE] >>, applied |-> -1]

pendingRequests(d) == {r \in d.records : ToUpperCase(r.status) = "PENDING"}

\* disabled={!!processingId} on the Deny / Approve buttons
ButtonDisabled_Never(d) == FALSE

ButtonDisabled(d) == d.processingId # ""

\* a change of refreshSeq with no cleanup: the running fetch stays live
RerunEffect_NoCleanup(d, seq) ==
    [d EXCEPT !.refreshSeq = seq,
              !.isLoading = TRUE,
              !.error = "",
              !.runs = Append(@, [seq |-> seq, cancelled |-> FALSE])]

\* a change of refreshSeq: the effect's cleanup cancels the running fetch and
\* the effect starts a new one
RerunEffect(d, seq) ==
    [d EXCEPT !.refreshSeq = seq,
              !.isLoading = TRUE,
              !.error = "",
              !.runs = Append([k \in 1..Len(@) |-> [@[k] EXCEPT !.cancelled = TRUE]],
                              [seq |-> seq, cancelled |-> FALSE])]

RemoveAt(q, k) == [j \in 1..(Len(q) - 1) |-> IF j < k THEN q[j] ELSE q[j + 1]]

\* the modal prompt() blocks every other callback of the page
Blocked == dash.prompting # <<>>

\* a fetchLogRecords() of the effect resolves
DashFetchResolves ==
    /\ ~Blocked
    /\ \E k \in 1..Len(dash.runs), ok \in BOOLEAN :
         LET run == dash.runs[k]
             rows == IF env.sheets /\ ok THEN LogRecordsOf(remote) ELSE {}
             d1 == [dash EXCEPT !.runs = RemoveAt(@, k)]
         IN  dash' = IF run.cancelled THEN d1
                     ELSE [d1 EXCEPT !.records = rows, !.isLoading = FALSE, !.applied = run.seq]
    /\ UNCHANGED <<env, remote, hist>>
    /\ UNCHANGED <<RelayVars, ReadVars, FrontVars>>

\* the Refresh button
DashRefresh ==
    /\ ~Blocked
    /\ ~dash.isLoading
    /\ dash.refreshSeq < MaxRefresh
    /\ dash' = RerunEffect(dash, dash.refreshSeq + 1)
    /\ UNCHANGED <<env, remote, hist>>
    /\ UNCHANGED <<RelayVars, ReadVars, FrontVars>>

\* Deny / Approve on a listed request: handleAction up to prompt()
DashClick ==
    /\ ~Blocked
    /\ ~dash.isLoading
    /\ ~ButtonDisabled(dash)
    /\ dash.refreshSeq < MaxRefresh
    /\ Len(dash.inflight) < MaxInFlight
    /\ \E req \in pendingRequests(dash), status \in {"APPROVED", "REJECTED"} :
         dash' = [dash EXCEPT !.processingId = req.requestId,
                              !.prompting = << [requestId |-> req.requestId, status |-> status] >>]
    /\ UNCHANGED <<env, remote, hist>>
    /\ UNCHANGED <<RelayVars, ReadVars, FrontVars>>

\* prompt() returns null
DashPromptCancelled ==
    /\ Blocked
    /\ dash' = [dash EXCEPT !.processingId = "", !.prompting = <<>>]
    /\ UNCHANGED <<env, remote, hist>>
    /\ UNCHANGED <<RelayVars, ReadVars, FrontVars>>

\* prompt() returns a comment: submitDecisionToLogs is called
DashPromptAnswered ==
    /\ Blocked
    /\ \E comment \in {"", "ok"} :
         dash' = [dash EXCEPT !.prompting = <<>>,
                              !.inflight = Append(@, [requestId |-> dash.prompting[1].requestId,
                                                      status |-> dash.prompting[1].status,
                                                      managerComment |-> OrElse(comment, ""),
                                                      sent |-> env.logWebhook])]
    /\ UNCHANGED <<env, remote, hist>>
    /\ UNCHANGED <<RelayVars, ReadVars, FrontVars>>

\* submitDecisionToLogs resolves (true or false) and handleAction finishes;
\* delivered is the relay having applied the decision
DashSubmitResolves ==
    /\ ~Blocked
    /\ \E k \in 1..Len(dash.inflight), delivered \in BOOLEAN :
         LET call == dash.inflight[k]
             d1 == [dash EXCEPT !.inflight = RemoveAt(@, k)]
         IN  /\ remote' = IF call.sent /\ delivered
                          THEN [remote EXCEPT ![call.requestId] = call.status]
                          ELSE remote
             /\ dash' = [RerunEffect(d1, d1.refreshSeq + 1) EXCEPT !.processingId = ""]
    /\ UNCHANGED <<env, hist>>
    /\ UNCHANGED <<RelayVars, ReadVars, FrontVars>>

DashNext ==
    \/ DashFetchResolves
    \/ DashRefresh
    \/ DashClick
    \/ DashPromptCancelled
    \/ DashPromptAnswered
    \/ DashSubmitResolves

(***************************************************************************)
(* The leave history: the rows on display and the effect that reloads them *)
(* when the Refresh button is pressed or the employeeEmail prop changes.   *)
(***************************************************************************)
HistoryEmails == {"asha@x.co", "ravi@x.co"}

\* what fetchEmployeeLogHistory(email) can resolve to; it never rejects
HistoryResults(email) ==
    { <<>>, <<[requestId |-> "REQ-A", employeeEmail |-> email, status |-> "PENDING"]>> }

\* the component after mount; issued counts the runs of the effect and
\* applied is the run whose response was put on display last (-1: none yet)
HistInit ==
    [rows |-> <<>>, isLoading |-> TRUE, error |-> "", employeeEmail |-> "asha@x.co",
     refreshSeq |-> 0, issued |-> 1, applied |-> -1,
     runs |-> << [seq |-> 0, email |-> "asha@x.co", cancelled |-> FALSE] >>]

\* a change of employeeEmail or refreshSeq: cleanup of the running effect,
\* then a new run
HistoryRerun(h, email, seq) ==
    [h EXCEPT !.employeeEmail = email,
              !.refreshSeq = seq,
              !.isLoading = TRUE,
              !.error = "",
              !.issued = @ + 1,
              !.runs = Append([k \in 1..Len(@) |-> [@[k] EXCEPT !.cancelled = TRUE]],
                              [seq |-> h.issued, email |-> email, cancelled |-> FALSE])]

HistFrame == UNCHANGED <<RelayVars, env, remote, dash, ReadVars, FrontVars>>

\* the Refresh button, disabled while loading
HistoryRefresh ==
    /\ ~hist.isLoading
    /\ hist.issued <= MaxRefresh
    /\ hist' = HistoryRerun(hist, hist.employeeEmail, hist.refreshSeq + 1)
    /\ HistFrame

\* the parent renders the history for another signed-in user
HistoryEmailChanges ==
    /\ hist.issued <= MaxRefresh
    /\ \E email \in HistoryEmails \ {hist.employeeEmail} :
          hist' = HistoryRerun(hist, email, hist.refreshSeq)
    /\ HistFrame

\* a fetchEmployeeLogHistory() of the effect resolves
HistoryFetchResolves ==
    /\ \E k \in 1..Len(hist.runs) :
          \E data \in HistoryResults(hist.runs[k].email) :
             \E h1 \in {[hist EXCEPT !.runs = RemoveAt(@, k)]} :
                hist' = IF hist.runs[k].cancelled THEN h1
                        ELSE [h1 EXCEPT !.rows = data, !.isLoading = FALSE,
                                        !.applied = hist.runs[k].seq]
    /\ HistFrame

ClientInit ==
    /\ env \in Envs
    /\ remote = RemoteInit
    /\ dash = DashInit
    /\ hist = HistInit

(***************************************************************************)
(* The read layer: parsing of the grids the Sheets API returns             *)
(***************************************************************************)
\* row[idx] with a missing cell read as the empty string (idx is 1-based,
\* 0 stands for the index -1)
CellOr(row, idx) == IF idx \in 1..Len(row) THEN row[idx] ELSE ""

\* headers.indexOf(key), 1-based; 0 when absent
IndexOf(seq, x) ==
    IF \E i \in 1..Len(seq) : seq[i] = x
    THEN CHOOSE i \in 1..Len(seq) : seq[i] = x /\ \A j \in 1..(i - 1) : seq[j] # x
    ELSE 0

\* findIdx(...keys): the column of the first key the header row has
RECURSIVE findIdx(_, _)
findIdx(headers, keys) ==
    IF keys = <<>> THEN 0
    ELSE IF IndexOf(headers, ToLowerCase(Head(keys))) # 0
         THEN IndexOf(headers, ToLowerCase(Head(keys)))
         ELSE findIdx(headers, Tail(keys))

\* parseEmployees without its filter on the email
parseEmployees_KeepsRowsWithoutEmail(hasValues, values) ==
    IF ~hasValues \/ Len(values) < 2 THEN <<>>
    ELSE
    LET headers == [i \in 1..Len(values[1]) |-> ToLowerCase(Trim(values[1][i]))]
        emailIdx == findIdx(headers, <<"email", "email_id", "emailid">>)
        nameIdx == findIdx(headers, <<"name", "emp_name", "employee_name">>)
        idIdx == findIdx(headers, <<"employeeid", "emp_code", "employee_code">>)
        roleIdx == findIdx(headers, <<"role">>)
        mapped == [k \in 1..(Len(values) - 1) |->
                     LET row == values[k + 1]
                     IN  [email |-> ToLowerCase(Trim(CellOr(row, emailIdx))),
                          name |-> OrElse(Trim(CellOr(row, nameIdx)), ""),
                          employeeId |-> OrElse(Trim(CellOr(row, idIdx)), ""),
                          role |-> OrElse(ToLowerCase(Trim(CellOr(row, roleIdx))), "employee")]]
        HasEmail(emp) == Truthy(emp.email)
    IN  IF emailIdx = 0 \/ roleIdx = 0 THEN <<>> ELSE mapped

parseEmployees(hasValues, values) ==
    IF ~hasValues \/ Len(values) < 2 THEN <<>>
    ELSE
    LET headers == [i \in 1..Len(values[1]) |-> ToLowerCase(Trim(values[1][i]))]
        emailIdx == findIdx(headers, <<"email", "email_id", "emailid">>)
        nameIdx == findIdx(headers, <<"name", "emp_name", "employee_name">>)
        idIdx == findIdx(headers, <<"employeeid", "emp_code", "employee_code">>)
        roleIdx == findIdx(headers, <<"role">>)
        mapped == [k \in 1..(Len(values) - 1) |->
                     LET row == values[k + 1]
                     IN  [email |-> ToLowerCase(Trim(CellOr(row, emailIdx))),
                          name |-> OrElse(Trim(CellOr(row, nameIdx)), ""),
                          employeeId |-> OrElse(Trim(CellOr(row, idIdx)), ""),
                          role |-> OrElse(ToLowerCase(Trim(CellOr(row, roleIdx))), "employee")]]
        HasEmail(emp) == Truthy(emp.email)
    IN  IF emailIdx = 0 \/ roleIdx = 0 THEN <<>> ELSE SelectSeq(mapped, HasEmail)

\* directory.reduce((acc, emp) => { acc[emp.email] = emp; ... }, {}) read
\* back with Object.values: one entry per email, at the place of its first
\* row, holding its last row
RECURSIVE ByEmail(_)
ByEmail(directory) ==
    IF directory = <<>> THEN <<>>
    ELSE LET n == Len(directory)
             init == ByEmail(SubSeq(directory, 1, n - 1))
             emp == directory[n]
             at == {k \in 1..Len(init) : init[k].email = emp.email}
         IN  IF at = {} THEN Append(init, emp)
             ELSE [k \in 1..Len(init) |-> IF k \in at THEN emp ELSE init[k]]

\* uniq(arr): Array.from(new Set(arr.filter(Boolean)))
RECURSIVE uniq(_)
uniq(arr) ==
    IF arr = <<>> THEN <<>>
    ELSE LET n == Len(arr)
             init == uniq(SubSeq(arr, 1, n - 1))
         IN  IF ~Truthy(arr[n]) \/ (\E k \in 1..Len(init) : init[k] = arr[n])
             THEN init ELSE Append(init, arr[n])

NoOptions == [permissionTypes |-> <<>>, leaveTypes |-> <<>>]

\* normalizeHeaderKey: trimmed, lower-cased, blanks and underscores removed
normalizeHeaderKey(v) ==
    LET low == ToLowerCase(Trim(v))
    IN  CASE low = "permission type" -> "permissiontype"
          [] low = "leave type"      -> "leavetype"
          [] OTHER                   -> low

parseLookup(hasValues, values) ==
    IF ~hasValues \/ Len(values) = 0 THEN NoOptions
    ELSE
    LET firstA == normalizeHeaderKey(OrElse(CellOr(values[1], 1), ""))
        firstB == normalizeHeaderKey(OrElse(CellOr(values[1], 2), ""))
        hasHeader == \/ firstA = "permissiontype"
                     \/ firstB = "leavetype"
                     \/ (firstA = "permissiontype" /\ firstB = "leavetype")
        rows == SubSeq(values, IF hasHeader THEN 2 ELSE 1, Len(values))
    IN  [permissionTypes |-> uniq([k \in 1..Len(rows) |-> Trim(CellOr(rows[k], 1))]),
         leaveTypes |-> uniq([k \in 1..Len(rows) |-> Trim(CellOr(rows[k], 2))])]

\* getCellString(row, idx)
getCellString(row, idx) == Trim(CellOr(row, idx))

parseLogSheetRecords(values) ==
    IF Len(values) < 2 THEN <<>>
    ELSE
    LET firstA == ToLowerCase(Trim(OrElse(CellOr(values[1], 1), "")))
        hasHeader == firstA = "timestamp"
        NonEmpty(r) == Len(r) > 0
        rows == SelectSeq(SubSeq(values, IF hasHeader THEN 2 ELSE 1, Len(values)), NonEmpty)
        mapped == [k \in 1..Len(rows) |->
                     LET r == rows[k]
                     IN  [timestamp |-> getCellString(r, 1),
                          requestId |-> getCellString(r, 2),
                          type |-> getCellString(r, 3),
                          status |-> getCellString(r, 4),
                          employeeName |-> getCellString(r, 5),
                          employeeEmail |-> ToLowerCase(getCellString(r, 6)),
                          employeeId |-> getCellString(r, 7),
                          dates |-> getCellString(r, 8),
                          reason |-> getCellString(r, 9),
                          managerComment |-> getCellString(r, 10),
                          managerAction |-> getCellString(r, 11),
                          permissionType |-> getCellString(r, 12),
                          leaveType |-> getCellString(r, 13),
                          requestedInTime |-> getCellString(r, 14),
                          requestedOutTime |-> getCellString(r, 15)]]
        Identified(r) == Truthy(r.employeeEmail) \/ Truthy(r.employeeId) \/ Truthy(r.employeeName)
    IN  SelectSeq(mapped, Identified)

\* Date.parse(timestamp); -1 stands for NaN
DateParse(ts) ==
    CASE ts = "2024-01-01T09:00" -> 1
      [] ts = "2024-01-02T09:00" -> 2
      [] ts = "2024-01-03T09:00" -> 3
      [] ts = "2024-01-04T09:00" -> 4
      [] OTHER -> -1

\* the comparator of records.sort: 0 when either timestamp is unparsable,
\* else tb - ta
newestFirst(a, b) ==
    LET ta == DateParse(a.timestamp)
        tb == DateParse(b.timestamp)
    IN  IF ta = -1 \/ tb = -1 THEN 0 ELSE tb - ta

\* Array.prototype.sort with that comparator, as a stable insertion sort
RECURSIVE InsertSorted(_, _)
InsertSorted(sorted, x) ==
    IF sorted = <<>> THEN <<x>>
    ELSE LET n == Len(sorted)
         IN  IF newestFirst(sorted[n], x) > 0
             THEN Append(InsertSorted(SubSeq(sorted, 1, n - 1), x), sorted[n])
             ELSE Append(sorted, x)

RECURSIVE sortNewestFirst(_)
sortNewestFirst(records) ==
    IF records = <<>> THEN <<>>
    ELSE InsertSorted(sortNewestFirst(SubSeq(records, 1, Len(records) - 1)), records[Len(records)])

(***************************************************************************)
(* The read layer: localStorage caches and the asynchronous fetches        *)
(***************************************************************************)
\* localStorage without the three cache keys (clearRoleCache)
NoCache ==
    [roles |-> [present |-> FALSE, value |-> {}],
     directory |-> [present |-> FALSE, value |-> <<>>],
     lookup |-> [present |-> FALSE, value |-> NoOptions]]

\* saveCache(key, value)
saveCache(store, key, value) == [store EXCEPT ![key] = [present |-> TRUE, value |-> value]]

\* loadCache(CACHE_KEY): the role cache, {} when the key is absent
CachedRoles(store) == IF store.roles.present THEN store.roles.value ELSE {}

\* Object.values(loadCache(DIRECTORY_CACHE_KEY))
CachedDirectory(store) == IF store.directory.present THEN store.directory.value ELSE <<>>

\* loadCache(LOOKUP_CACHE_KEY)['options'] || { permissionTypes: [], leaveTypes: [] }
CachedOptions(store) == IF store.lookup.present THEN store.lookup.value ELSE NoOptions

\* what a fetch of a range can come back with: the fetch throws, the status
\* is not ok, the body is not JSON, or a body with or without values
Failure(kind) == [kind |-> kind, hasValues |-> FALSE, values |-> <<>>]

Body(values) == [kind |-> "ok", hasValues |-> TRUE, values |-> values]

Failures == {Failure("throw"), Failure("notOk"), Failure("badJson")}

DirectoryHeader == <<"S_NO", "EMP_CODE", "EMP_NAME", "ROLE", "EMAIL_ID">>

DirectoryGrids ==
    { << DirectoryHeader,
         <<"1", "E1", "Asha", "Employee", "Asha@x.co ">>,
         <<"2", "E2", "Ravi", "Manager", "ravi@x.co">> >>,
      << DirectoryHeader,
         <<"1", "E1", "Asha", "Manager", "Asha@x.co ">>,
         <<"2", "E2", "Ravi", "Manager", "">>,
         <<"3", "E9", "Asha K", "Employee", "asha@x.co">> >>,
      << <<"S_NO", "EMP_CODE", "EMP_NAME", "EMAIL_ID">>,
         <<"1", "E1", "Asha", "Asha@x.co ">> >> }

DirectoryResponses == Failures \cup {Body(g) : g \in DirectoryGrids} \cup {Failure("ok")}

LookupGrids ==
    { << <<"Permission Type", "Leave Type">>, <<"leave", "Casual Leave">>,
         <<"permission", " Casual Leave">>, <<"leave", "FN Permission">> >>,
      << <<"permission", "AN Permission">> >> }

LookupResponses == Failures \cup {Body(g) : g \in LookupGrids}

LogGrids ==
    { << desiredHeader,
         NewRequestRow(<<desiredHeader>>, BaseData, "REQ-A"),
         NewRequestRow(<<desiredHeader, BlankRow>>, [BaseData EXCEPT !.employeeName = "Ravi"], "REQ-B") >>,
      << desiredHeader >> }

\* the answers to the candidate ranges a log read tries, in order: any number
\* of non-ok answers, then possibly one that ends the loop
RECURSIVE NotOkTimes(_)
NotOkTimes(k) == IF k = 0 THEN <<>> ELSE Append(NotOkTimes(k - 1), Failure("notOk"))

NumRanges == 5

LogResponses ==
    { Append(NotOkTimes(k), last) :
        k \in 0..(NumRanges - 1),
        last \in {Failure("throw"), Failure("badJson"), Failure("ok")} \cup {Body(g) : g \in LogGrids} }
    \cup { NotOkTimes(NumRanges) }

\* for (const r of rangesToTry) { values = await tryFetchSheetValues_(r); if (values) break; }
RECURSIVE tryRanges(_)
tryRanges(answers) ==
    IF answers = <<>> THEN [threw |-> FALSE, found |-> FALSE, values |-> <<>>]
    ELSE LET a == Head(answers)
         IN  IF a.kind \in {"throw", "badJson"} THEN [threw |-> TRUE, found |-> FALSE, values |-> <<>>]
             ELSE IF a.kind = "notOk" THEN tryRanges(Tail(answers))
             ELSE [threw |-> FALSE, found |-> TRUE, values |-> IF a.hasValues THEN a.values ELSE <<>>]

\* fetchEmployeeDirectory saving its result only while the key is empty
fetchEmployeeDirectory_KeepsFirstCache(store, resp) ==
    IF resp.kind = "notOk" THEN [value |-> <<>>, store |-> store, failed |-> TRUE]
    ELSE IF resp.kind \in {"throw", "badJson"}
    THEN [value |-> CachedDirectory(store), store |-> store, failed |-> TRUE]
    ELSE LET directory == parseEmployees(resp.hasValues, resp.values)
         IN  [value |-> directory,
              store |-> IF store.directory.present THEN store
                        ELSE saveCache(store, "directory", ByEmail(directory)),
              failed |-> FALSE]

\* fetchEmployeeDirectory after its fetch came back: the returned list, the
\* cache after it, and whether the read failed
fetchEmployeeDirectory(store, resp) ==
    IF resp.kind = "notOk" THEN [value |-> <<>>, store |-> store, failed |-> TRUE]
    ELSE IF resp.kind \in {"throw", "badJson"}
    THEN [value |-> CachedDirectory(store), store |-> store, failed |-> TRUE]
    ELSE LET directory == parseEmployees(resp.hasValues, resp.values)
         IN  [value |-> directory, store |-> saveCache(store, "directory", ByEmail(directory)),
              failed |-> FALSE]

\* fetchLookupOptions after its fetch came back
fetchLookupOptions(store, resp) ==
    IF resp.kind \in {"notOk", "throw", "badJson"}
    THEN [value |-> <<CachedOptions(store)>>, store |-> store, failed |-> TRUE]
    ELSE LET parsed == parseLookup(resp.hasValues, resp.values)
         IN  [value |-> <<parsed>>, store |-> saveCache(store, "lookup", parsed), failed |-> FALSE]

\* fetchLogRecords after its fetches came back
fetchLogRecords(store, answers) ==
    LET got == tryRanges(answers)
    IN  IF got.threw THEN [value |-> <<>>, store |-> store, failed |-> TRUE]
        ELSE [value |-> sortNewestFirst(parseLogSheetRecords(got.values)), store |-> store,
              failed |-> ~got.found]

\* cache[normalizedEmail] = profile
AssignRole(cache, profile) == {q \in cache : q.email # profile.email} \cup {profile}

\* fetchUserRole after the directory fetch it awaited came back; cache is the
\* role cache as loaded before the await
fetchUserRole(store, cache, normalizedEmail, resp) ==
    LET dir == fetchEmployeeDirectory(store, resp)
        hits == {k \in 1..Len(dir.value) : dir.value[k].email = normalizedEmail}
    IN  IF hits = {} THEN [value |-> <<>>, store |-> dir.store, failed |-> dir.failed]
        ELSE LET match == dir.value[CHOOSE k \in hits : \A j \in hits : k <= j]
                 profile == [email |-> match.email, name |-> match.name, role |-> match.role]
             IN  [value |-> <<profile>>,
                  store |-> saveCache(dir.store, "roles", AssignRole(cache, profile)),
                  failed |-> dir.failed]

Datasets == {"directory", "lookup", "logs"}

RoleEmails == {"Asha@x.co ", "ravi@x.co", " "}

NormalizedEmails == {ToLowerCase(Trim(e)) : e \in RoleEmails}

\* the last thing the read layer did; ahead counts the calls issued earlier
\* that were still pending when a fetch came back
NoEvent ==
    [kind |-> "none", fn |-> "", email |-> "", value |-> <<>>, failed |-> FALSE, fetched |-> FALSE,
     ahead |-> 0]

Returned(fn, email, value, failed, fetched) ==
    [kind |-> "return", fn |-> fn, email |-> email, value |-> value, failed |-> failed, fetched |-> fetched,
     ahead |-> 0]

NeverRead == [ds \in Datasets |-> [has |-> FALSE, value |-> <<>>]]

NeverResolved == [e \in NormalizedEmails |-> <<>>]

ReadInit ==
    /\ ls = NoCache
    /\ calls = <<>>
    /\ ev = NoEvent
    /\ lastOk = NeverRead
    /\ resolved = NeverResolved

\* fetchEmployeeDirectory / fetchLookupOptions / fetchLogRecords is called
CallRead ==
    /\ \E fn \in Datasets :
          IF ~env.sheets
          THEN /\ ev' = Returned(fn, "", IF fn = "lookup" THEN <<CachedOptions(ls)>> ELSE <<>>, FALSE, FALSE)
               /\ UNCHANGED <<ls, calls, lastOk, resolved>>
          ELSE /\ Len(calls) < MaxCalls
               /\ calls' = Append(calls, [fn |-> fn, email |-> "", cache |-> {}])
               /\ ev' = [NoEvent EXCEPT !.kind = "call", !.fn = fn]
               /\ UNCHANGED <<ls, lastOk, resolved>>
    /\ UNCHANGED <<RelayVars, ClientVars, FrontVars>>

\* the fetch of a pending read comes back and the read returns
ReadResolves ==
    /\ \E k \in 1..Len(calls) :
          /\ calls[k].fn \in Datasets
          /\ \E res \in IF calls[k].fn = "directory"
                        THEN {fetchEmployeeDirectory(ls, r) : r \in DirectoryResponses}
                        ELSE IF calls[k].fn = "lookup"
                        THEN {fetchLookupOptions(ls, r) : r \in LookupResponses}
                        ELSE {fetchLogRecords(ls, a) : a \in LogResponses} :
               /\ ls' = res.store
               /\ ev' = [Returned(calls[k].fn, "", res.value, res.failed, TRUE) EXCEPT !.ahead = k - 1]
               /\ lastOk' = IF res.failed THEN lastOk
                            ELSE [lastOk EXCEPT ![calls[k].fn] = [has |-> TRUE, value |-> res.value]]
          /\ calls' = RemoveAt(calls, k)
          /\ UNCHANGED resolved
    /\ UNCHANGED <<RelayVars, ClientVars, FrontVars>>

\* fetchUserRole(email) is called
CallRole ==
    /\ \E email \in RoleEmails :
          LET normalizedEmail == ToLowerCase(Trim(email))
              cache == CachedRoles(ls)
              hit == {q \in cache : q.email = normalizedEmail}
          IN  IF ~Truthy(normalizedEmail)
              THEN /\ ev' = Returned("role", normalizedEmail, <<>>, FALSE, FALSE)
                   /\ UNCHANGED <<ls, calls, lastOk, resolved>>
              ELSE IF hit # {}
              THEN /\ ev' = Returned("role", normalizedEmail, <<CHOOSE q \in hit : TRUE>>, FALSE, FALSE)
                   /\ UNCHANGED <<ls, calls, lastOk, resolved>>
              ELSE IF ~env.sheets
              THEN /\ ev' = Returned("role", normalizedEmail, <<>>, FALSE, FALSE)
                   /\ UNCHANGED <<ls, calls, lastOk, resolved>>
              ELSE /\ Len(calls) < MaxCalls
                   /\ calls' = Append(calls, [fn |-> "role", email |-> normalizedEmail, cache |-> cache])
                   /\ ev' = [NoEvent EXCEPT !.kind = "call", !.fn = "role", !.email = normalizedEmail]
                   /\ UNCHANGED <<ls, lastOk, resolved>>
    /\ UNCHANGED <<RelayVars, ClientVars, FrontVars>>

\* the directory fetch of a pending fetchUserRole comes back
RoleResolves ==
    /\ \E k \in 1..Len(calls), resp \in DirectoryResponses :
          /\ calls[k].fn = "role"
          /\ \E res \in {fetchUserRole(ls, calls[k].cache, calls[k].email, resp)} :
                 /\ ls' = res.store
                 /\ ev' = Returned("role", calls[k].email, res.value, res.failed, TRUE)
                 /\ resolved' = IF res.value = <<>> THEN resolved
                                ELSE [resolved EXCEPT ![calls[k].email] = res.value]
          /\ calls' = RemoveAt(calls, k)
          /\ UNCHANGED lastOk
    /\ UNCHANGED <<RelayVars, ClientVars, FrontVars>>

\* clearRoleCache()
ClearRoleCache ==
    /\ ls' = NoCache
    /\ ev' = [NoEvent EXCEPT !.kind = "clear"]
    /\ lastOk' = NeverRead
    /\ resolved' = NeverResolved
    /\ UNCHANGED calls
    /\ UNCHANGED <<RelayVars, ClientVars, FrontVars>>

(***************************************************************************)
(* Request ids.  Math.random().toString(36) is "0" or "0." followed by the  *)
(* base-36 digits of the fraction; texts are sequences of characters.      *)
(***************************************************************************)
Base36Digits == {"7", "k"}

RandomTexts ==
    {<<"0">>} \cup
    UNION {{<<"0", ".">> \o f : f \in [1..n -> Base36Digits]} : n \in 1..MaxFraction}

Min(a, b) == IF a < b THEN a ELSE b

\* String.prototype.slice(from, to) for 0 <= from <= to
Slice(t, from, to) ==
    IF from >= Min(to, Len(t)) THEN <<>> ELSE SubSeq(t, from + 1, Min(to, Len(t)))

\* String.prototype.substr(from, length)
Substr(t, from, length) == Slice(t, from, from + length)

UpperChar(c) == IF c = "k" THEN "K" ELSE c

ToUpperChars(t) == [i \in 1..Len(t) |-> UpperChar(t[i])]

newRequestId_(text) == <<"R", "E", "Q", "-">> \o ToUpperChars(Slice(text, 2, 10))

\* the id LeaveForm.handleSubmit gives the request it stores locally
formRequestId(text) == Substr(text, 2, 9)

\* no function applied yet
PureInit == [fn |-> "none", arg |-> <<>>, out |-> <<>>]

\* doPost mints the id of a new request
MintInRelay ==
    /\ pure.fn = "none"
    /\ \E text \in RandomTexts :
          pure' = [fn |-> "newRequestId_", arg |-> text, out |-> newRequestId_(text)]
    /\ UNCHANGED <<RelayVars, ClientVars, ReadVars, form, disp>>

\* handleSubmit mints the id of the request it hands to saveRequest
MintInForm ==
    /\ pure.fn = "none"
    /\ \E text \in RandomTexts :
          pure' = [fn |-> "formRequestId", arg |-> text, out |-> formRequestId(text)]
    /\ UNCHANGED <<RelayVars, ClientVars, ReadVars, form, disp>>

(***************************************************************************)
(* The leave form (LeaveForm): formData, the change handlers with the two  *)
(* effects that follow a change, and handleSubmit with its timer.          *)
(***************************************************************************)
PERMISSION_ONLY_LEAVE_TYPES == {"FN Permission", "AN Permission", "In Between Permission"}

normalize(v) == ToLowerCase(Trim(v))

normalizedPermissionOnly == {normalize(x) : x \in PERMISSION_ONLY_LEAVE_TYPES}

\* formData as mounted; alternateStaff, optional and touched by no rule, is
\* left out and travels as the empty string
EmptyForm ==
    [name |-> "", email |-> "", empId |-> "", permissionType |-> "", leaveType |-> "",
     requestedInTime |-> "", requestedOutTime |-> "", startDate |-> "", endDate |-> "",
     reason |-> ""]

isPermission(d) == normalize(d.permissionType) = "permission"

\* the in-time input shown for every permission-only leave type
showInTimeField_ForEveryPermissionLeaveType(d) ==
    /\ isPermission(d)
    /\ normalize(d.leaveType) \in normalizedPermissionOnly

showInTimeField(d) ==
    /\ isPermission(d)
    /\ normalize(d.leaveType) \in {normalize("FN Permission"), normalize("In Between Permission")}

showOutTimeField(d) ==
    /\ isPermission(d)
    /\ normalize(d.leaveType) \in {normalize("AN Permission"), normalize("In Between Permission")}

\* the leave types the select offers
filteredLeaveTypeOptions(d, leaveTypeOptions) ==
    IF isPermission(d)
    THEN LET fromSheet == {x \in leaveTypeOptions : normalize(x) \in normalizedPermissionOnly}
         IN  IF fromSheet # {} THEN fromSheet ELSE PERMISSION_ONLY_LEAVE_TYPES
    ELSE {x \in leaveTypeOptions : normalize(x) \notin normalizedPermissionOnly}

\* the effect without its reset of a permission-only leave type
permissionTypeEffect_KeepsLeaveType(prev) ==
    IF normalize(prev.permissionType) # "permission"
    THEN [prev EXCEPT !.requestedInTime = "", !.requestedOutTime = ""]
    ELSE [prev EXCEPT !.leaveType = IF Truthy(prev.leaveType)
                                       /\ normalize(prev.leaveType) \notin normalizedPermissionOnly
                                    THEN "" ELSE prev.leaveType]

\* useEffect([formData.permissionType])
permissionTypeEffect(prev) ==
    IF normalize(prev.permissionType) # "permission"
    THEN [prev EXCEPT !.requestedInTime = "", !.requestedOutTime = "",
                      !.leaveType = IF normalize(prev.leaveType) \in normalizedPermissionOnly
                                    THEN "" ELSE prev.leaveType]
    ELSE [prev EXCEPT !.leaveType = IF Truthy(prev.leaveType)
                                       /\ normalize(prev.leaveType) \notin normalizedPermissionOnly
                                    THEN "" ELSE prev.leaveType]

\* useEffect([formData.permissionType, formData.leaveType])
leaveTypeEffect(prev) ==
    LET isPerm == normalize(prev.permissionType) = "permission"
        lt == normalize(prev.leaveType)
        needsIn == isPerm /\ (lt = normalize("FN Permission") \/ lt = normalize("In Between Permission"))
        needsOut == isPerm /\ (lt = normalize("AN Permission") \/ lt = normalize("In Between Permission"))
    IN  [prev EXCEPT !.requestedInTime = IF ~needsIn THEN "" ELSE prev.requestedInTime,
                     !.requestedOutTime = IF ~needsOut THEN "" ELSE prev.requestedOutTime]

\* the effects whose dependencies differ between two renders run, in order,
\* as updates of the latest state; the render that follows may run them again
RECURSIVE RunEffects(_, _)
RunEffects(before, after) ==
    LET permChanged == after.permissionType # before.permissionType
        leaveChanged == after.leaveType # before.leaveType
        a1 == IF permChanged THEN permissionTypeEffect(after) ELSE after
        a2 == IF permChanged \/ leaveChanged THEN leaveTypeEffect(a1) ELSE a1
    IN  IF a2 = after THEN after ELSE RunEffects(after, a2)

\* the form with the reason textarea not required
RequiredFields_WithoutReason(d) ==
    {"name", "empId", "permissionType", "leaveType", "email", "startDate", "endDate"}
    \cup (IF showInTimeField(d) THEN {"requestedInTime"} ELSE {})
    \cup (IF showOutTimeField(d) THEN {"requestedOutTime"} ELSE {})

\* the fields that carry the required attribute in the rendered form; the
\* time inputs are rendered only while their show flag holds
RequiredFields(d) ==
    {"name", "empId", "permissionType", "leaveType", "email", "startDate", "endDate", "reason"}
    \cup (IF showInTimeField(d) THEN {"requestedInTime"} ELSE {})
    \cup (IF showOutTimeField(d) THEN {"requestedOutTime"} ELSE {})

\* the browser's constraint validation of the form on a click of the submit
\* button: onSubmit fires only when no required control is empty
ConstraintsValid(d) == \A f \in RequiredFields(d) : d[f] # ""

\* handleSubmit's newRequest, in the shape appendLogEntry posts it
newRequest(d) ==
    [BaseData EXCEPT !.type = "request", !.status = "PENDING",
        !.employeeName = d.name, !.employeeEmail = d.email, !.employeeId = d.empId,
        !.permissionType = d.permissionType, !.leaveType = d.leaveType,
        !.requestedInTime = IF showInTimeField(d) THEN d.requestedInTime ELSE "",
        !.requestedOutTime = IF showOutTimeField(d) THEN d.requestedOutTime ELSE "",
        !.startDate = d.startDate, !.endDate = d.endDate, !.reason = d.reason]

TextInputs ==
    [name |-> "Asha", empId |-> "E7", email |-> "Asha@x.co",
     startDate |-> "2024-01-10", endDate |-> "2024-01-12", reason |-> "family",
     requestedInTime |-> "09:30", requestedOutTime |-> "17:00"]

\* what the LookUp sheet may hold: every kind of leave type, or none of the
\* permission-only ones
OptionSheets ==
    { [permissionTypes |-> {"Permission", "leave"},
       leaveTypes |-> {"FN Permission", "an permission", "In Between Permission", "Casual Leave"}],
      [permissionTypes |-> {"Permission", "leave"}, leaveTypes |-> {"Casual Leave"}] }

FormInit ==
    [data |-> EmptyForm, isSubmitting |-> FALSE, loaded |-> FALSE,
     permissionTypeOptions |-> {}, leaveTypeOptions |-> {},
     pending |-> <<>>, posted |-> <<>>, stored |-> <<>>, notice |-> "", reset |-> {}]

FormFrame == UNCHANGED <<RelayVars, ClientVars, ReadVars, disp, pure>>

\* the fields the effects changed after a change of the form
ResetBy(changed, after) == {f \in DOMAIN changed : changed[f] # after[f]}

\* a change of one field as the handlers make it, with the effects that follow
Change(f, v) ==
    LET changed == [form.data EXCEPT ![f] = v]
        after == RunEffects(form.data, changed)
    IN  [form EXCEPT !.data = after, !.notice = "", !.reset = ResetBy(changed, after)]

\* loadData resolves with the lookup options
FormLoadData ==
    /\ ~form.loaded
    /\ \E o \in OptionSheets :
          form' = [form EXCEPT !.loaded = TRUE,
                               !.permissionTypeOptions = o.permissionTypes,
                               !.leaveTypeOptions = o.leaveTypes]
    /\ FormFrame

\* handleInputChange on a rendered input, followed by the effects
FormInput ==
    /\ \E f \in {"name", "empId", "email", "startDate", "endDate", "reason"}
                \cup (IF showInTimeField(form.data) THEN {"requestedInTime"} ELSE {})
                \cup (IF showOutTimeField(form.data) THEN {"requestedOutTime"} ELSE {}),
          clear \in BOOLEAN :
          LET v == IF clear THEN "" ELSE TextInputs[f]
          IN  /\ form.data[f] # v
              /\ form' = Change(f, v)
    /\ FormFrame

\* handleSelectChange on one of the two selects, followed by the effects
FormSelect ==
    /\ \/ \E v \in form.permissionTypeOptions :
             /\ form.data.permissionType # v
             /\ form' = Change("permissionType", v)
       \/ \E v \in filteredLeaveTypeOptions(form.data, form.leaveTypeOptions) :
             /\ form.data.leaveType # v
             /\ form' = Change("leaveType", v)
    /\ FormFrame

\* a click of the submit button that constraint validation stops
FormSubmitBlocked ==
    /\ ~form.isSubmitting
    /\ ~ConstraintsValid(form.data)
    /\ form' = [form EXCEPT !.notice = "invalid"]
    /\ FormFrame

\* handleSubmit up to setTimeout
FormSubmit ==
    /\ ~form.isSubmitting
    /\ ConstraintsValid(form.data)
    /\ form' = [form EXCEPT !.isSubmitting = TRUE, !.pending = <<newRequest(form.data)>>,
                            !.notice = ""]
    /\ FormFrame

\* the timer callback: saveRequest, appendLogEntry, reset of the form
FormTimer ==
    /\ form.pending # <<>>
    /\ form' = [form EXCEPT !.stored = form.pending,
                            !.posted = IF env.logWebhook THEN form.pending ELSE form.posted,
                            !.pending = <<>>, !.isSubmitting = FALSE,
                            !.data = RunEffects(form.data, EmptyForm),
                            !.notice = "submitted", !.reset = {}]
    /\ FormFrame

FormNext ==
    \/ FormLoadData
    \/ FormInput
    \/ FormSelect
    \/ FormSubmitBlocked
    \/ FormSubmit
    \/ FormTimer

(***************************************************************************)
(* The dispatch functions of the client: appendLogEntry,                   *)
(* submitDecisionToLogs and submitTask, each one POST to the relay.        *)
(***************************************************************************)
DispatchFunctions == {"appendLogEntry", "submitDecisionToLogs", "submitTask"}

\* the type field of the body each function posts
BodyType(fn) ==
    CASE fn = "appendLogEntry" -> "request"
      [] fn = "submitDecisionToLogs" -> "decision"
      [] OTHER -> "task"

\* how the awaited fetch ends: it resolves (the response is opaque, whatever
\* the relay answered) or it rejects
FetchOutcomes == {"resolved", "resolvedWithError", "rejected"}

\* the fetch awaited outside any try/catch: a rejection reaches the caller
dispatchReturns_NoCatch(outcome) == IF outcome = "rejected" THEN "throws" ELSE "true"

\* the value the try/catch around the fetch makes the function return
dispatchReturns(outcome) == IF outcome = "rejected" THEN "false" ELSE "true"

NotCalled == [fn |-> "", returned |-> FALSE, value |-> "", cause |-> ""]

DispInit == [pending |-> <<>>, writes |-> 0, sent |-> "", last |-> NotCalled]

DispFrame == UNCHANGED <<RelayVars, ClientVars, ReadVars, form, pure>>

\* a dispatch function is called: without a webhook it returns false at
\* once, with one it issues its POST
DispatchCall ==
    /\ \E fn \in DispatchFunctions :
          IF ~env.logWebhook
          THEN disp' = [disp EXCEPT !.last = [fn |-> fn, returned |-> TRUE, value |-> "false",
                                              cause |-> "noWebhook"]]
          ELSE /\ Len(disp.pending) < MaxCalls
               /\ disp.writes < MaxWrites
               /\ disp' = [disp EXCEPT !.pending = Append(disp.pending, fn),
                                       !.writes = disp.writes + 1,
                                       !.sent = BodyType(fn),
                                       !.last = [fn |-> fn, returned |-> FALSE, value |-> "",
                                                 cause |-> "fetch"]]
    /\ DispFrame

\* the fetch of a pending dispatch ends and the function returns
DispatchResolves ==
    /\ \E i \in 1..Len(disp.pending), outcome \in FetchOutcomes :
          disp' = [disp EXCEPT !.pending = RemoveAt(disp.pending, i),
                               !.last = [fn |-> disp.pending[i], returned |-> TRUE,
                                         value |-> dispatchReturns(outcome),
                                         cause |-> outcome]]
    /\ DispFrame

DispatchNext ==
    \/ DispatchCall
    \/ DispatchResolves

(***************************************************************************)
(* Sorting and parsing, applied to inputs of their own                     *)
(***************************************************************************)
\* a merge sort with the comparator of records.sort
RECURSIVE merge(_, _)
merge(l, r) ==
    IF l = <<>> THEN r
    ELSE IF r = <<>> THEN l
    ELSE IF newestFirst(Head(l), Head(r)) <= 0
         THEN <<Head(l)>> \o merge(Tail(l), r)
         ELSE <<Head(r)>> \o merge(l, Tail(r))

RECURSIVE mergeSortNewestFirst(_)
mergeSortNewestFirst(records) ==
    IF Len(records) < 2 THEN records
    ELSE LET m == Len(records) \div 2
         IN  merge(mergeSortNewestFirst(SubSeq(records, 1, m)),
                   mergeSortNewestFirst(SubSeq(records, m + 1, Len(records))))

\* what records.sort(comparator) can leave in the array: the language fixes
\* the result only for a consistent comparator, so the outcomes are those of
\* the stable algorithms the engines run (insertion sort, merge sort)
SortOutcomes(records) == {sortNewestFirst(records), mergeSortNewestFirst(records)}

Timestamps == {"2024-01-01T09:00", "2024-01-02T09:00", "2024-01-03T09:00",
               "2024-01-04T09:00", "n/a"}

\* record lists with pairwise different timestamps
SortInputs ==
    UNION {{[i \in 1..n |-> [timestamp |-> ts[i]]] :
              ts \in {f \in [1..n -> Timestamps] :
                        \A i \in 1..n, j \in 1..n : i # j => f[i] # f[j]}} :
           n \in 1..MaxSort}

\* fetchLogRecords / fetchEmployeeLogHistory sort their records
SortRecords ==
    /\ pure.fn = "none"
    /\ \E records \in SortInputs : \E sorted \in SortOutcomes(records) :
          pure' = [fn |-> "sort", arg |-> records, out |-> sorted]
    /\ UNCHANGED <<RelayVars, ClientVars, ReadVars, form, disp>>

parseTaskLogRecords(values) ==
    IF Len(values) < 2 THEN <<>>
    ELSE
    LET firstA == ToLowerCase(Trim(OrElse(CellOr(values[1], 1), "")))
        hasHeader == firstA = "timestamp"
        NonEmpty(r) == Len(r) > 0
        rows == SelectSeq(SubSeq(values, IF hasHeader THEN 2 ELSE 1, Len(values)), NonEmpty)
        mapped == [k \in 1..Len(rows) |->
                     LET r == rows[k]
                     IN  [timestamp |-> getCellString(r, 1),
                          employeeName |-> getCellString(r, 2),
                          employeeEmail |-> ToLowerCase(getCellString(r, 3)),
                          company |-> getCellString(r, 4),
                          platform |-> getCellString(r, 5),
                          fulfillment |-> getCellString(r, 6),
                          task |-> getCellString(r, 7),
                          quantity |-> getCellString(r, 8)]]
        HasEmail(r) == Truthy(r.employeeEmail)
    IN  SelectSeq(mapped, HasEmail)

\* data rows of the Logs sheet as the Sheets API returns them
LogDataRows ==
    { NewRequestRow(<<desiredHeader>>, BaseData, "REQ-A"),
      NewRequestRow(<<desiredHeader, BlankRow>>,
                    [BaseData EXCEPT !.employeeName = "Ravi", !.employeeEmail = "Asha@x.co "], "REQ-B"),
      <<"2024-01-03T09:00", "REQ-A", "request", "APPROVED">>,
      <<>> }

TaskLogHeader ==
    <<"Timestamp", "Employee Name", "Employee Email", "Company", "Platform",
      "Fulfillment", "Task", "Quantity">>

TaskDataRows ==
    { <<"2024-01-01T09:00", "Asha", "Asha@x.co", "Acme", "Web", "FBA", "Listing", "3">>,
      <<"2024-01-02T09:00", "Ravi", "ravi@x.co", "Acme">>,
      <<"2024-01-03T09:00", "Ravi">>,
      <<>> }

RowLists(rows) == UNION {[1..n -> rows] : n \in 0..MaxGridRows}

\* a log grid is parsed with and without its header row
ParseLogGrid ==
    /\ pure.fn = "none"
    /\ \E rows \in RowLists(LogDataRows) :
          pure' = [fn |-> "parseLogSheetRecords", arg |-> rows,
                   out |-> [withHeader |-> parseLogSheetRecords(<<desiredHeader>> \o rows),
                            withoutHeader |-> parseLogSheetRecords(rows)]]
    /\ UNCHANGED <<RelayVars, ClientVars, ReadVars, form, disp>>

ParseTaskGrid ==
    /\ pure.fn = "none"
    /\ \E rows \in RowLists(TaskDataRows) :
          pure' = [fn |-> "parseTaskLogRecords", arg |-> rows,
                   out |-> [withHeader |-> parseTaskLogRecords(<<TaskLogHeader>> \o rows),
                            withoutHeader |-> parseTaskLogRecords(rows)]]
    /\ UNCHANGED <<RelayVars, ClientVars, ReadVars, form, disp>>

\* header rows of the employeedetails sheet: the documented one, one of
\* other synonyms, one without a role column, one without an email column
DirectoryHeaders ==
    { DirectoryHeader,
      <<"S_NO", "Employee_Code", "Name", "Role", "Email">>,
      <<"S_NO", "EMP_CODE", "EMP_NAME", "EMP_GRADE", "EMAIL_ID">>,
      <<"S_NO", "EMP_CODE", "EMP_NAME", "ROLE">> }

DirectoryRows ==
    { <<"1", "E1", "Asha", "Employee", "Asha@x.co ">>,
      <<"2", "E2", "Ravi", "Manager", "ravi@x.co">>,
      <<"3", "E3", "Mira", "Employee", " ">>,
      <<"4", "E4", "Dev">>,
      <<"5", "E5", "Zed", "", "zed@x.co">> }

\* the directory grid of a response is parsed
ParseDirectory ==
    /\ pure.fn = "none"
    /\ \/ \E header \in DirectoryHeaders, rows \in RowLists(DirectoryRows) :
             pure' = [fn |-> "parseEmployees", arg |-> <<header>> \o rows,
                      out |-> parseEmployees(TRUE, <<header>> \o rows)]
       \/ pure' = [fn |-> "parseEmployees", arg |-> <<>>, out |-> parseEmployees(FALSE, <<>>)]
    /\ UNCHANGED <<RelayVars, ClientVars, ReadVars, form, disp>>

(***************************************************************************)
(* From the form to the history view: a request is posted to the relay     *)
(* and the requester's history is read back from the Logs sheet.           *)
(***************************************************************************)
\* a row of the sheet as the Sheets API returns it: trailing empty cells are
\* left out
RECURSIVE DropTrailingEmpty(_)
DropTrailingEmpty(row) ==
    IF row = <<>> \/ row[Len(row)] # "" THEN row
    ELSE DropTrailingEmpty(SubSeq(row, 1, Len(row) - 1))

\* values of the range Logs!A:<width> of the sheet: the first width columns
\* of every row, without the trailing empty rows
RECURSIVE SheetValues(_, _)
SheetValues(s, width) ==
    LET rows == [i \in 1..Len(s) |-> DropTrailingEmpty(SubSeq(s[i], 1, Min(width, Len(s[i]))))]
    IN  IF rows = <<>> THEN <<>>
        ELSE IF rows[Len(rows)] = <<>> THEN SheetValues(SubSeq(s, 1, Len(s) - 1), width)
        ELSE rows

\* fetchEmployeeLogHistory(employeeEmail) with the Sheets credentials set;
\* answers are those of the candidate ranges, as for fetchLogRecords
fetchEmployeeLogHistory(employeeEmail, answers) ==
    LET normalizedEmail == ToLowerCase(Trim(employeeEmail))
        got == tryRanges(answers)
        OfEmail(r) == r.employeeEmail = normalizedEmail
    IN  IF ~Truthy(normalizedEmail) THEN <<>>
        ELSE IF got.threw THEN <<>>
        ELSE sortNewestFirst(SelectSeq(parseLogSheetRecords(got.values), OfEmail))

\* complete drafts of the leave form
FilledForms ==
    { [EmptyForm EXCEPT !.name = "Asha", !.email = m, !.empId = "E7",
                        !.permissionType = "Permission", !.leaveType = "In Between Permission",
                        !.requestedInTime = "09:30", !.requestedOutTime = "17:00",
                        !.startDate = "2024-01-10", !.endDate = e, !.reason = "family"] :
        m \in {"Asha@x.co", "ravi@x.co"}, e \in {"2024-01-10", "2024-01-12"} }

\* spellings under which the history view may be asked for an email
ReadEmails == {"Asha@x.co", "asha@x.co", "ASHA@X.CO", "ravi@x.co"}

\* columns of the candidate ranges of a log read (logRange at its default)
RangeWidths == <<15, 15, 15, 11, 11>>

\* the form's request reaches the relay: doPost runs to its end
SubmitLeaveRequest ==
    /\ Len(sheet) - 1 < MaxRows
    /\ \E d \in FilledForms, minted \in IdSpace, setHeader \in BOOLEAN :
          LET b == PostBegin(sheet, [hasData |-> TRUE, data |-> newRequest(d)], minted)
              n == RunPost(b[1], b[2])
          IN  /\ sheet' = n[1]
              /\ post' = withCors_(n[2], setHeader)
              /\ pure' = [fn |-> "submit",
                          arg |-> [data |-> newRequest(d), requestId |-> minted,
                                   timestamp |-> n[1][Len(n[1])][1]],
                          out |-> <<>>]
    /\ get' = Idle
    /\ UNCHANGED <<taskLogs, ClientVars, ReadVars, form, disp>>

\* the history view reads the requester's rows: the first failed ranges
\* answer with a non-ok status, the next one with the sheet's values
ReadHistory ==
    /\ pure.fn = "submit"
    /\ \E email \in ReadEmails, failed \in 0..(NumRanges - 1) :
          /\ ToLowerCase(Trim(email)) = ToLowerCase(Trim(pure.arg.data.employeeEmail))
          /\ LET width == RangeWidths[failed + 1]
                 answers == Append(NotOkTimes(failed), Body(SheetValues(sheet, width)))
             IN  pure' = [fn |-> "history",
                          arg |-> [data |-> pure.arg.data, requestId |-> pure.arg.requestId,
                                   timestamp |-> pure.arg.timestamp,
                                   email |-> email, width |-> width],
                          out |-> fetchEmployeeLogHistory(email, answers)]
    /\ UNCHANGED <<RelayVars, ClientVars, ReadVars, form, disp>>

FrontAtRest == form = FormInit /\ disp = DispInit /\ pure = PureInit

(***************************************************************************)
(* Specifications                                                          *)
(***************************************************************************)
\* the relay, with the client at rest
ClientAtRest ==
    /\ env = [sheets |-> TRUE, logWebhook |-> TRUE]
    /\ remote = RemoteInit
    /\ dash = DashInit
    /\ hist = HistInit

Init == RelayInit /\ ClientAtRest /\ ReadInit /\ FrontAtRest

Next == RelayNext

Spec == Init /\ [][Next]_vars

\* the manager dashboard, with the relay at rest
RelayAtRest ==
    /\ sheet = <<desiredHeader>>
    /\ taskLogs = NoSheet
    /\ post = Idle
    /\ get = Idle

InitDash == RelayAtRest /\ ClientInit /\ ReadInit /\ FrontAtRest

NextDash == DashNext

SpecDash == InitDash /\ [][NextDash]_vars

\* the dataset reads (directory, lookup options, log records) and their caches
InitRead ==
    /\ RelayAtRest
    /\ env \in Envs /\ remote = RemoteInit /\ dash = DashInit /\ hist = HistInit
    /\ ReadInit
    /\ FrontAtRest

NextRead ==
    \/ CallRead
    \/ ReadResolves
    \/ ClearRoleCache

SpecRead == InitRead /\ [][NextRead]_vars

\* the role lookups and the role cache
NextRole ==
    \/ CallRole
    \/ RoleResolves
    \/ ClearRoleCache

SpecRole == InitRead /\ [][NextRole]_vars

\* functions applied to inputs of their own, everything else at rest
InitPure == RelayAtRest /\ ClientAtRest /\ ReadInit /\ FrontAtRest

\* the request ids the relay and the form mint
NextMint ==
    \/ MintInRelay
    \/ MintInForm

SpecMint == InitPure /\ [][NextMint]_vars

\* the leave form
InitForm == InitRead /\ env.sheets

SpecForm == InitForm /\ [][FormNext]_vars

\* the dispatch functions
SpecDispatch == InitRead /\ [][DispatchNext]_vars

\* the sort of the log records
SpecSort == InitPure /\ [][SortRecords]_vars

\* the grid parsers
NextParse ==
    \/ ParseLogGrid
    \/ ParseTaskGrid

SpecParse == InitPure /\ [][NextParse]_vars

SpecDirectory == InitPure /\ [][ParseDirectory]_vars

\* a request from the form to the history view
NextHistory ==
    \/ SubmitLeaveRequest
    \/ ReadHistory

SpecHistory == Init /\ [][NextHistory]_vars

(***************************************************************************)
(* Properties of the relay                                                 *)
(***************************************************************************)
DecisionBody(rid, st, mc) ==
    [hasData |-> TRUE,
     data |-> [BaseData EXCEPT !.type = "decision", !.requestId = rid,
                               !.status = st, !.managerComment = mc]]

\* the sheet and the execution record after a whole decision POST
DecidePost(s, rid, st, mc) ==
    LET b == PostBegin(s, DecisionBody(rid, st, mc), "") IN RunPost(b[1], b[2])

\* the sheet and the execution record after a whole deep-link GET
DecideGet(s, rid, action) ==
    LET b == GetBegin(s, [method |-> "", action |-> action, rid |-> rid]) IN RunGet(b[1], b[2])

HasRow(s, rid) == \E r \in DataRows(s) : s[r][2] = rid

\* C1: the Logs sheet holds exactly one row per requestId (no two data rows
\* carry the same id in the identity column).
C1_OneRowPerRequestId ==
    \A i, j \in DataRows(sheet) : i # j => sheet[i][2] # sheet[j][2]

\* C2: a status cell only ever changes from PENDING to APPROVED or from
\* PENDING to REJECTED; a decided status never changes again.
C2_StatusOnlyLeavesPending ==
    [][\A r \in DataRows(sheet) :
          sheet'[r][4] # sheet[r][4]
             => sheet[r][4] = "PENDING" /\ sheet'[r][4] \in {"APPROVED", "REJECTED"}]_vars

\* C3: a decision whose requestId matches no row answers not-found, changes
\* no cell of the spreadsheet (header row included) and sends no email.
C3_NotFoundWritesNothing ==
    [][ /\ (Quiet /\ post'.pc = "done" /\ post'.response = "Error: Request ID not found")
           => sheet' = sheet /\ post'.mails = <<>>
        /\ (Quiet /\ get'.pc = "done" /\ get'.response = "<h1>Request Not Found</h1>")
           => sheet' = sheet /\ get'.mails = <<>> ]_vars

C5_EntryPointsAgree ==
    \A rid \in IdSpace, d \in {"APPROVED", "REJECTED"} :
       HasRow(sheet, rid) =>
          LET viaPost == DecidePost(sheet, rid, d, "")
              viaGet == DecideGet(sheet, rid, IF d = "APPROVED" THEN "APPROVE" ELSE "DENY")
          IN  /\ viaPost[1] = viaGet[1]
              /\ Len(viaPost[2].mails) = 1
              /\ Len(viaGet[2].mails) = 1

Cols(written) == {written[k] : k \in 1..Len(written)}

\* C6: in both decision entry points the requester notification is sent
\* only after all of that decision's cell writes have been performed.
C6_NotifyAfterWrites ==
    /\ (post.kind = "decision" /\ post.mails # <<>>) => Cols(post.written) = {4, 10, 11}
    /\ (get.kind = "decision" /\ get.mails # <<>>) => Cols(get.written) = {4, 11}

\* a decision POST has sent its notification
C6_Witness ==
    post.kind = "decision" /\ post.pc = "done" /\ Len(post.mails) = 1

(***************************************************************************)
(* Properties of the dashboard                                             *)
(***************************************************************************)
InFlightFor(id) == {k \in 1..Len(dash.inflight) : dash.inflight[k].requestId = id}

\* C7: at most one submitDecisionToLogs call per requestId is in flight at
\* any time, the in-flight flag names the request being decided, and the
\* flag is cleared again once the action has resolved or was cancelled.
C7_OneDecisionInFlight ==
    /\ \A id \in IdSpace : Cardinality(InFlightFor(id)) <= 1
    /\ \A k \in 1..Len(dash.inflight) : dash.processingId = dash.inflight[k].requestId
    /\ dash.prompting # <<>> => dash.processingId = dash.prompting[1].requestId
    /\ (dash.inflight = <<>> /\ dash.prompting = <<>>) => dash.processingId = ""

\* a decision for a request is in flight while that request is still listed
C7_Witness ==
    /\ Len(dash.inflight) = 1
    /\ dash.processingId = dash.inflight[1].requestId
    /\ ~dash.isLoading
    /\ \E r \in pendingRequests(dash) : r.requestId = dash.processingId

(***************************************************************************)
(* Properties of the read layer                                            *)
(***************************************************************************)
\* the value the cache holds for a dataset; log records have no cache key
CachedValue(store, fn) ==
    CASE fn = "directory" -> CachedDirectory(store)
      [] fn = "lookup"    -> <<CachedOptions(store)>>
      [] OTHER            -> <<>>

\* a pending read returns in this step, having failed
FailedReadReturns == Len(calls') < Len(calls) /\ ev'.kind = "return" /\ ev'.failed

\* C8: every dataset read that fails returns the most recently cached value
\* for that dataset, or an empty result when no cache entry exists.
C8_FailedReadServesCache ==
    [][FailedReadReturns => ev'.value = CachedValue(ls, ev'.fn)]_vars

\* C9: a read that fails after an earlier read of the same dataset succeeded
\* with R (no successful read and no cache clear in between) returns R.
C9_FailedReadReturnsLastGood ==
    [][(FailedReadReturns /\ lastOk[ev'.fn].has) => ev'.value = lastOk[ev'.fn].value]_vars

\* C10: once fetchUserRole has resolved an email, every later call for that
\* email returns the same profile without a directory fetch until
\* clearRoleCache; a lookup of an email not resolved since the last clear
\* fetches the directory.
C10_RoleCacheShortCircuits ==
    [][ev'.fn = "role" =>
          /\ Len(calls') > Len(calls) => resolved[ev'.email] = <<>>
          /\ (ev'.kind = "return" /\ ~ev'.fetched /\ resolved[ev'.email] # <<>>)
                => ev'.value = resolved[ev'.email]
          /\ (ev'.kind = "return" /\ ~ev'.fetched /\ Truthy(ev'.email) /\ env.sheets)
                => resolved[ev'.email] # <<>>]_vars

(***************************************************************************)
(* Properties of request creation and of the leave form                    *)
(***************************************************************************)
UpperAlnum ==
    {"A", "B", "C", "D", "E", "F", "G", "H", "I", "J", "K", "L", "M", "N", "O", "P", "Q",
     "R", "S", "T", "U", "V", "W", "X", "Y", "Z",
     "0", "1", "2", "3", "4", "5", "6", "7", "8", "9"}

\* REQ-[A-Z0-9]{8}
MatchesRequestIdPattern(id) ==
    /\ Len(id) = 12
    /\ SubSeq(id, 1, 4) = <<"R", "E", "Q", "-">>
    /\ \A i \in 5..12 : id[i] \in UpperAlnum

\* C11: every request id that creation mints -- the relay's for the row it
\* appends, the form's for the request it stores -- is REQ- followed by
\* exactly eight characters of A-Z and 0-9.
C11_RequestIdMatchesPattern ==
    pure.fn \in {"newRequestId_", "formRequestId"} => MatchesRequestIdPattern(pure.out)

\* the eight fields a draft must fill, by their names in the request
DraftComplete(r) ==
    /\ r.employeeName # "" /\ r.employeeId # "" /\ r.employeeEmail # ""
    /\ r.permissionType # "" /\ r.leaveType # ""
    /\ r.startDate # "" /\ r.endDate # "" /\ r.reason # ""

\* the requests that left the form: awaiting the timer, posted, stored
Submitted == {form.pending[i] : i \in DOMAIN form.pending}
             \cup {form.posted[i] : i \in DOMAIN form.posted}
             \cup {form.stored[i] : i \in DOMAIN form.stored}

C13_TimesFollowLeaveType ==
    \A r \in Submitted :
        LET perm == normalize(r.permissionType) = "permission"
            lt == normalize(r.leaveType)
            row == NewRequestRow(<<desiredHeader>>, r, "REQ-A")
        IN  /\ r.requestedInTime # "" => perm /\ lt \in {"fn permission", "in between permission"}
            /\ r.requestedOutTime # "" => perm /\ lt \in {"an permission", "in between permission"}
            /\ (perm /\ lt = "in between permission") =>
                  /\ r.requestedInTime = TextInputs.requestedInTime
                  /\ r.requestedOutTime = TextInputs.requestedOutTime
                  /\ row[14] = r.requestedInTime /\ row[15] = r.requestedOutTime
            /\ (perm /\ lt = "fn permission") => r.requestedOutTime = ""
            /\ (perm /\ lt = "an permission") => r.requestedInTime = ""

\* an In Between Permission request with both times was posted
C13_Witness ==
    \E i \in DOMAIN form.posted :
        /\ form.posted[i].leaveType = "In Between Permission"
        /\ form.posted[i].requestedInTime # "" /\ form.posted[i].requestedOutTime # ""

\* C14: whenever the form is at rest after a change, a permissionType that
\* does not normalize to "permission" comes with both times empty and with
\* a leaveType that is none of the permission-only types.
C14_PolicyAfterEveryChange ==
    ~isPermission(form.data) =>
        /\ form.data.requestedInTime = "" /\ form.data.requestedOutTime = ""
        /\ normalize(form.data.leaveType) \notin normalizedPermissionOnly

\* a switch away from permission has just reset the leave type and a time
C14_Witness ==
    /\ ~isPermission(form.data) /\ form.data.permissionType # ""
    /\ "leaveType" \in form.reset
    /\ form.reset \cap {"requestedInTime", "requestedOutTime"} # {}

(***************************************************************************)
(* Properties of sorting and parsing                                       *)
(***************************************************************************)
Unparsable(r) == DateParse(r.timestamp) = -1

\* C15: sorting records of which exactly one has an unparsable timestamp
\* returns a permutation of them in which that record is where it was and
\* the other records are strictly newest-first.
C15_SortKeepsUnparsableInPlace ==
    ( /\ pure.fn = "sort"
      /\ Cardinality({i \in DOMAIN pure.arg : Unparsable(pure.arg[i])}) = 1 ) =>
        LET in == pure.arg
            out == pure.out
            Parsable(r) == ~Unparsable(r)
            rest == SelectSeq(out, Parsable)
        IN  /\ Len(out) = Len(in)
            /\ {out[i] : i \in DOMAIN out} = {in[i] : i \in DOMAIN in}
            /\ \A i \in DOMAIN in : Unparsable(in[i]) => out[i] = in[i]
            /\ \A i \in 1..(Len(rest) - 1) :
                  DateParse(rest[i].timestamp) > DateParse(rest[i + 1].timestamp)

\* C16: a grid of data rows parses to the same records with a header row in
\* front of it as without one.
C16_HeaderMakesNoDifference ==
    pure.fn \in {"parseLogSheetRecords", "parseTaskLogRecords"} =>
        pure.out.withHeader = pure.out.withoutHeader

\* the first column whose trimmed, lower-cased header is one of the names
HeaderColumn(header, names) ==
    LET at == {i \in DOMAIN header : ToLowerCase(Trim(header[i])) \in names}
    IN  IF at = {} THEN 0 ELSE CHOOSE i \in at : \A j \in at : i <= j

\* C17: parseEmployees binds email, name, id and role by header name; without
\* an email or a role column the result is empty; otherwise it is, in input
\* order, the rows that have an email, each with the email lower-cased.
C17_DirectoryBoundByHeader ==
    pure.fn = "parseEmployees" =>
        LET grid == pure.arg
            header == IF grid = <<>> THEN <<>> ELSE grid[1]
            emailCol == HeaderColumn(header, {"email", "email_id", "emailid"})
            nameCol == HeaderColumn(header, {"name", "emp_name", "employee_name"})
            idCol == HeaderColumn(header, {"employeeid", "emp_code", "employee_code"})
            roleCol == HeaderColumn(header, {"role"})
            Resolved(row) == ToLowerCase(Trim(CellOr(row, emailCol))) # ""
            kept == IF grid = <<>> THEN <<>> ELSE SelectSeq(Tail(grid), Resolved)
        IN  IF emailCol = 0 \/ roleCol = 0
            THEN pure.out = <<>>
            ELSE /\ Len(pure.out) = Len(kept)
                 /\ \A k \in DOMAIN kept :
                       /\ pure.out[k].email = ToLowerCase(Trim(kept[k][emailCol]))
                       /\ pure.out[k].name = Trim(CellOr(kept[k], nameCol))
                       /\ pure.out[k].employeeId = Trim(CellOr(kept[k], idCol))

\* a grid of three rows of which one has no email: two employees come back,
\* the first with its email trimmed and lower-cased
C17_Witness ==
    /\ pure.fn = "parseEmployees"
    /\ Len(pure.arg) = 4 /\ Len(pure.out) = 2
    /\ CellOr(pure.arg[2], 5) = "Asha@x.co " /\ pure.out[1].email = "asha@x.co"

(***************************************************************************)
(* Properties of the dispatch functions                                    *)
(***************************************************************************)
\* C18: a dispatch function returns false without a POST when no webhook is
\* configured, false when its fetch rejects, true otherwise, and it never
\* throws.
C18_DispatchNeverThrows ==
    /\ ~env.logWebhook => disp.writes = 0 /\ disp.pending = <<>>
    /\ disp.last.returned =>
          /\ disp.last.value \in {"true", "false"}
          /\ disp.last.value = "false" <=> disp.last.cause \in {"noWebhook", "rejected"}

\* a dispatch whose fetch rejected returned false
C18_Witness ==
    /\ disp.last.returned /\ disp.last.cause = "rejected" /\ disp.last.value = "false"
    /\ disp.writes > 0

C20_OnlyTheProbeCarriesCors ==
    get.pc = "done" =>
        IF get.kind = "options"
        THEN get.response = "" /\ get.cors /\ get.written = <<>> /\ get.mails = <<>>
        ELSE ~get.cors

(***************************************************************************)
(* Properties of the lifecycle cells                                       *)
(***************************************************************************)
\* C21: whenever no handler is executing, every data row of the Logs sheet
\* has a status among PENDING, APPROVED and REJECTED and a managerAction
\* that mirrors it: empty while PENDING, APPROVE when APPROVED, DENY when
\* REJECTED.
C21_ActionMirrorsStatus ==
    Quiet =>
       \A r \in DataRows(sheet) :
          \/ sheet[r][4] = "PENDING" /\ sheet[r][11] = ""
          \/ sheet[r][4] = "APPROVED" /\ sheet[r][11] = "APPROVE"
          \/ sheet[r][4] = "REJECTED" /\ sheet[r][11] = "DENY"

(***************************************************************************)
(* Decisions on a Logs sheet of any content: identity cells with           *)
(* surrounding blanks, several rows with one id, rows decided before.      *)
(***************************************************************************)
MaxSheetRows == 2

IdCells == {"REQ-A", " REQ-A", "REQ-B"}

\* a data row as a request left it, or as a decision left it
LoggedRows ==
    { [NewRequestRow(<<desiredHeader>>, BaseData, id) EXCEPT ![4] = st[1], ![10] = st[2], ![11] = st[3]] :
        id \in IdCells, st \in {<<"PENDING", "", "">>, <<"REJECTED", "late", "DENY">>} }

RECURSIVE RowsUpTo(_)
RowsUpTo(n) ==
    IF n = 0 THEN {<<>>}
    ELSE LET shorter == RowsUpTo(n - 1)
         IN  shorter \cup {Append(rows, r) : rows \in shorter, r \in LoggedRows}

LoggedSheets == {<<header>> \o rows : header \in {desiredHeader, HeaderA2O}, rows \in RowsUpTo(MaxSheetRows)}

\* the decisions a client can post twice
RepeatedDecisions == RidInputs \X {"APPROVED", "REJECTED", ""} \X {"", " ok "}

\* the same decision is posted two times in succession
PostDecisionTwice ==
    /\ pure.fn = "none"
    /\ \E d \in RepeatedDecisions :
          \E once \in {DecidePost(sheet, d[1], d[2], d[3])} :
             \E twice \in {DecidePost(once[1], d[1], d[2], d[3])} :
                /\ sheet' = twice[1]
                /\ pure' = [fn |-> "decideTwice", arg |-> <<d, sheet>>, out |-> <<once, twice>>]
    /\ UNCHANGED <<taskLogs, post, get, ClientVars, ReadVars, form, disp>>

\* one id is decided through the POST and, on the same sheet, through the link
DecideBothWays ==
    /\ pure.fn = "none"
    /\ \E rid \in RidInputs, d \in {"APPROVED", "REJECTED"} :
          pure' = [fn |-> "decideBothWays", arg |-> <<rid, sheet>>,
                   out |-> << DecidePost(sheet, rid, d, ""),
                              DecideGet(sheet, rid, IF d = "APPROVED" THEN "APPROVE" ELSE "DENY") >>]
    /\ UNCHANGED <<RelayVars, ClientVars, ReadVars, form, disp>>

InitDecide ==
    /\ sheet \in LoggedSheets /\ taskLogs = NoSheet /\ post = Idle /\ get = Idle
    /\ ClientAtRest /\ ReadInit /\ FrontAtRest

NextDecide ==
    \/ PostDecisionTwice
    \/ DecideBothWays

SpecDecide == InitDecide /\ [][NextDecide]_vars

\* C22: a decision POST repeated with the same requestId, decision and
\* comment leaves the Logs sheet as the first one left it, and writes the
\* same cells of the same row (or, like the first, none).
C22_RepeatedDecisionIsIdempotent ==
    pure.fn = "decideTwice" =>
       /\ pure.out[2][1] = pure.out[1][1]
       /\ pure.out[2][2].rowIndex = pure.out[1][2].rowIndex
       /\ pure.out[2][2].written = pure.out[1][2].written
       /\ pure.out[2][2].response = pure.out[1][2].response

\* the first POST changed the three cells of a row that was decided before,
\* on a sheet where a second row carries the same id, and the second POST
\* wrote the three cells again
C22_Witness ==
    /\ pure.fn = "decideTwice"
    /\ pure.out[1][2].written = <<4, 10, 11>> /\ pure.out[2][2].written = <<4, 10, 11>>
    /\ pure.out[1][1] # pure.arg[2]
    /\ pure.arg[2][pure.out[1][2].rowIndex][10] = "late"
    /\ pure.arg[1][3] = " ok "
    /\ \E r \in DataRows(sheet) : r # pure.out[1][2].rowIndex /\ Trim(sheet[r][2]) = pure.out[1][2].requestId

(***************************************************************************)
(* Properties of a failed submission                                       *)
(***************************************************************************)
\* C23: when the dispatch of a submission fails (appendLogEntry returns
\* false for want of a configured relay), the leave form does not announce
\* a submitted request and keeps the entered data.
C23_FailedSubmissionIsReported ==
    [][(form.pending # <<>> /\ form'.pending = <<>> /\ ~env.logWebhook)
          => (form'.notice # "submitted" /\ form'.data = form.data)]_vars

(***************************************************************************)
(* A decision POST and a deep-link GET executing at the same time: each    *)
(* handler is its own execution of the script, nothing locks the sheet,    *)
(* and the steps of the two interleave.  pure.out keeps the cell writes in *)
(* the order they reached the sheet.                                       *)
(***************************************************************************)
RaceSheets ==
    { <<desiredHeader>> \o rows : rows \in {<<a>> \o tail :
          a \in {r \in LoggedRows : r[2] = "REQ-A"},
          tail \in {<<>>, <<NewRequestRow(<<desiredHeader>>, BaseData, "REQ-B")>>}} }

\* the writes a step added to the cells a handler has written
NewWrites(by, before, after, s) ==
    [k \in 1..(Len(after.written) - Len(before.written)) |->
        [by |-> by, row |-> after.rowIndex, col |-> after.written[Len(before.written) + k],
         value |-> s[after.rowIndex][after.written[Len(before.written) + k]]]]

\* a decision POST arrives, whatever the deep link is doing
RacePostArrives ==
    /\ post.pc = "idle"
    /\ \E rid \in IdSpace, st \in {"APPROVED", "REJECTED"}, mc \in {"", " ok "}, setHeader \in BOOLEAN :
          \E n \in {PostBegin(sheet, DecisionBody(rid, st, mc), "")} :
             sheet' = n[1] /\ post' = withCors_(n[2], setHeader)
    /\ pure' = [pure EXCEPT !.fn = "race"]
    /\ UNCHANGED <<taskLogs, get, ClientVars, ReadVars, form, disp>>

\* a deep link is opened, whatever the decision POST is doing
RaceGetArrives ==
    /\ get.pc = "idle"
    /\ \E rid \in IdSpace, action \in {"APPROVE", "DENY"}, setHeader \in BOOLEAN :
          \E n \in {GetBegin(sheet, [method |-> "", action |-> action, rid |-> rid])} :
             sheet' = n[1] /\ get' = withCors_(n[2], setHeader)
    /\ pure' = [pure EXCEPT !.fn = "race"]
    /\ UNCHANGED <<taskLogs, post, ClientVars, ReadVars, form, disp>>

\* doPost executes its next statement
RacePostNext ==
    /\ post.pc \notin {"idle", "done"}
    /\ \E mailOk \in BOOLEAN, setHeader \in BOOLEAN :
          \E n \in {PostStep(sheet, post, mailOk)} :
             /\ sheet' = n[1] /\ post' = withCors_(n[2], setHeader)
             /\ pure' = [pure EXCEPT !.out = @ \o NewWrites("post", post, n[2], n[1])]
    /\ UNCHANGED <<taskLogs, get, ClientVars, ReadVars, form, disp>>

\* doGet executes its next statement
RaceGetNext ==
    /\ get.pc \notin {"idle", "done"}
    /\ \E mailOk \in BOOLEAN, setHeader \in BOOLEAN :
          \E n \in {GetStep(sheet, get, mailOk)} :
             /\ sheet' = n[1] /\ get' = withCors_(n[2], setHeader)
             /\ pure' = [pure EXCEPT !.out = @ \o NewWrites("get", get, n[2], n[1])]
    /\ UNCHANGED <<taskLogs, post, ClientVars, ReadVars, form, disp>>

InitRace ==
    /\ sheet \in RaceSheets /\ taskLogs = NoSheet /\ post = Idle /\ get = Idle
    /\ ClientAtRest /\ ReadInit /\ FrontAtRest

NextRace ==
    \/ RacePostArrives
    \/ RaceGetArrives
    \/ RacePostNext
    \/ RaceGetNext

SpecRace == InitRace /\ [][NextRace]_vars

\* the value of the last write to a cell, <<>> when it was never written
LastWritten(log, row, col) ==
    LET at == {k \in 1..Len(log) : log[k].row = row /\ log[k].col = col}
    IN  IF at = {} THEN <<>> ELSE <<log[CHOOSE k \in at : \A j \in at : j <= k].value>>

BothDecided(rid) ==
    /\ post.pc = "done" /\ post.kind = "decision" /\ post.requestId = rid
    /\ get.pc = "done" /\ get.kind = "decision" /\ get.requestId = rid

InitRefresh == RelayAtRest /\ ClientAtRest /\ ReadInit /\ FrontAtRest

NextRefresh ==
    \/ DashFetchResolves
    \/ DashRefresh
    \/ DashClick
    \/ DashPromptCancelled
    \/ DashPromptAnswered
    \/ DashSubmitResolves
    \/ HistoryRefresh
    \/ HistoryEmailChanges
    \/ HistoryFetchResolves

SpecRefresh == InitRefresh /\ [][NextRefresh]_vars

\* the run the effect of a list issued last
LatestRun(d) == d.runs[Len(d.runs)].seq

\* a step in which one fetch of list d resolves: either its response is put
\* on display, and then it is the fetch issued last and loading ends, or
\* the records and the loading and error flags stay as they are
ResolvesAsLatestOrNotAtAll(d, e, shown, shownAfter) ==
    Len(e.runs) = Len(d.runs) - 1 =>
       IF e.applied # d.applied
       THEN e.applied = LatestRun(d) /\ ~e.isLoading
       ELSE shownAfter = shown /\ e.isLoading = d.isLoading /\ e.error = d.error

\* C25: in the manager dashboard and in the leave history, the response of
\* a fetch that a later refresh superseded is never applied to the records
\* on display or to the loading and error flags, in whatever order the
\* responses arrive; once no fetch is pending the list on display is the
\* response of the fetch issued last.
C25_SupersededFetchIsDropped ==
    /\ [][ /\ ResolvesAsLatestOrNotAtAll(dash, dash', dash.records, dash'.records)
           /\ ResolvesAsLatestOrNotAtAll(hist, hist', hist.rows, hist'.rows) ]_vars
    /\ [](dash.runs = <<>> => (dash.applied = dash.refreshSeq /\ ~dash.isLoading))
    /\ [](hist.runs = <<>> => (hist.applied = hist.issued - 1 /\ ~hist.isLoading))

\* in each list an earlier fetch is still pending after the fetch issued
\* last has resolved and been put on display
C25_Witness ==
    /\ Len(dash.runs) = 1 /\ dash.runs[1].cancelled /\ dash.applied = dash.refreshSeq
    /\ dash.applied > dash.runs[1].seq /\ ~dash.isLoading
    /\ Len(hist.runs) = 1 /\ hist.runs[1].cancelled /\ hist.applied = hist.issued - 1
    /\ hist.applied > hist.runs[1].seq /\ ~hist.isLoading /\ hist.rows # <<>>

(***************************************************************************)
(* Properties of overlapping directory reads                               *)
(***************************************************************************)
\* C26: whenever a fetchEmployeeDirectory call resolves successfully, the
\* directory cache holds the result of that call, whether or not calls
\* issued before or after it are still pending or have resolved: of two
\* overlapping calls the one that resolves last leaves its result.
C26_LastToResolveWins ==
    /\ [][(ev'.kind = "return" /\ ev'.fn = "directory" /\ ev'.fetched /\ ~ev'.failed
             /\ Len(calls') < Len(calls))
            => (ls'.directory.present /\ ls'.directory.value = ByEmail(ev'.value))]_vars
    /\ [](lastOk["directory"].has =>
             (ls.directory.present /\ ls.directory.value = ByEmail(lastOk["directory"].value)))

\* of two overlapping directory calls the one issued later has resolved and
\* left its two employees in the cache; the one issued first is still pending
C26_Witness ==
    /\ ev.kind = "return" /\ ev.fn = "directory" /\ ev.fetched /\ ~ev.failed /\ ev.ahead = 1
    /\ Len(calls) = 1 /\ calls[1].fn = "directory"
    /\ Len(ls.directory.value) = 2

(***************************************************************************)
(* The candidate ranges of a log read, each with an answer of its own      *)
(***************************************************************************)
\* what the read of one candidate range can come to
RangeAnswers == Failures \cup {Failure("ok"), Body(CHOOSE g \in LogGrids : Len(g) > 1)}

AnswersOfAllRanges == [1..NumRanges -> RangeAnswers]

\* fetchLogRecords() reads the candidates
ReadLogRanges ==
    /\ pure.fn = "none"
    /\ \E answers \in AnswersOfAllRanges :
          pure' = [fn |-> "fetchLogRecords", arg |-> answers,
                   out |-> fetchLogRecords(NoCache, answers).value]
    /\ UNCHANGED <<RelayVars, ClientVars, ReadVars, form, disp>>

\* fetchEmployeeLogHistory("asha@x.co") reads the candidates
ReadHistoryRanges ==
    /\ pure.fn = "none"
    /\ \E answers \in AnswersOfAllRanges :
          pure' = [fn |-> "fetchEmployeeLogHistory", arg |-> answers,
                   out |-> fetchEmployeeLogHistory("asha@x.co", answers)]
    /\ UNCHANGED <<RelayVars, ClientVars, ReadVars, form, disp>>

NextRanges ==
    \/ ReadLogRanges
    \/ ReadHistoryRanges

SpecRanges == InitPure /\ [][NextRanges]_vars

\* the grid of the first candidate, in order, whose read gave one; <<>> when
\* every candidate failed
FirstGrid(answers) ==
    LET gave == {k \in 1..Len(answers) : answers[k].kind = "ok"}
    IN  IF gave = {} THEN <<>>
        ELSE answers[CHOOSE k \in gave : \A j \in gave : k <= j].values

\* C27: a log read returns the records of the first candidate range, in the
\* fixed order, whose read gives a grid; a candidate whose read fails in
\* any way (not ok, thrown, unreadable body) is skipped and the later ones
\* are still tried.
C27_FailedRangeIsSkipped ==
    /\ pure.fn = "fetchLogRecords"
          => pure.out = sortNewestFirst(parseLogSheetRecords(FirstGrid(pure.arg)))
    /\ pure.fn = "fetchEmployeeLogHistory"
          => pure.out = fetchEmployeeLogHistory("asha@x.co", <<Body(FirstGrid(pure.arg))>>)

(***************************************************************************)
(* Properties of a notification that cannot be sent                        *)
(***************************************************************************)
\* a handler whose sendEmail threw: it is done without a mail on a row that
\* names a requester
MailFailed(h) == h.pc = "done" /\ h.kind = "decision" /\ h.rowIndex > 0
                 /\ Truthy(h.employeeEmail) /\ h.mails = <<>>

\* C28: when sendEmail throws in a decision handler, the step changes no
\* cell: the handler has written all its cells before (POST: status,
\* comment, action; GET: status, action) and they keep the values it wrote
\* unless the other entry point wrote them since.
C28_MailFailureKeepsTheDecision ==
    [][ /\ (post.pc = "mail" /\ MailFailed(post'))
            => /\ sheet' = sheet
               /\ post'.written = <<4, 10, 11>>
               /\ get.pc = "idle" => /\ sheet'[post.rowIndex][4] = post.status
                                      /\ sheet'[post.rowIndex][10] = post.managerComment
                                      /\ sheet'[post.rowIndex][11] = post.managerAction
        /\ (get.pc = "mail" /\ MailFailed(get'))
            => /\ sheet' = sheet
               /\ get'.written = <<4, 11>>
               /\ post.pc = "idle" => /\ sheet'[get.rowIndex][4] = get.status
                                       /\ sheet'[get.rowIndex][11] = get.managerAction ]_vars

\* a deep link approved a pending request and its mail could not be sent:
\* the row reads APPROVED / APPROVE
C28_Witness ==
    /\ MailFailed(get) /\ get.response = "Exception" /\ post.pc = "idle"
    /\ get.written = <<4, 11>>
    /\ sheet[get.rowIndex][4] = "APPROVED" /\ sheet[get.rowIndex][11] = "APPROVE"
    /\ sheet[get.rowIndex][10] = ""

(***************************************************************************)
(* Properties of the row lookup of the two entry points                    *)
(***************************************************************************)
\* C29: on every sheet and for every requestId the decision POST and the
\* deep-link GET resolve the id to the same row or both find none, and a
\* row they update is the first that carries the id, the others staying
\* as they were.
C29_BothResolveTheSameRow ==
    pure.fn = "decideBothWays" =>
       \A viaPost \in {pure.out[1]}, viaGet \in {pure.out[2]} :
          /\ viaPost[2].rowIndex = viaGet[2].rowIndex
          /\ \A r \in DataRows(sheet) :
                r # viaPost[2].rowIndex => (viaPost[1][r] = sheet[r] /\ viaGet[1][r] = sheet[r])

(***************************************************************************)
(* The two sheets over a sequence of POSTs and GETs, each handler run from *)
(* its first statement to its response                                     *)
(***************************************************************************)
MaxTaskRows == 1

TaskPayloads ==
    { [type |-> ty, timestamp |-> v[1], employeeName |-> "Asha", employeeEmail |-> "asha@x.co",
       company |-> "Acme", platform |-> "Web", fulfillment |-> "", task |-> "packing",
       quantity |-> v[2], claimedQuantity |-> "2"] :
        ty \in {"task", "Task"}, v \in {<<"", "">>, <<"2024-02-01T10:00", "5">>} }

LedgerBodies ==
    { [hasData |-> FALSE, data |-> BaseData] }
    \cup { [hasData |-> TRUE, data |-> d] :
             d \in { BaseData, [BaseData EXCEPT !.employeeEmail = ""] } }
    \cup { DecisionBody(rid, st, "") : rid \in {"REQ-A", ""}, st \in {"APPROVED", "REJECTED"} }
    \cup { [hasData |-> TRUE, data |-> d] : d \in TaskPayloads }

LedgerParameters ==
    [method : {""}, action : {"APPROVE", "DENY"}, rid : IdSpace]
    \cup { [method |-> "", action |-> "", rid |-> "REQ-A"] }

\* TaskLogs before the first task: missing, empty, with its header, or with
\* a header that lacks its last cell
InitTaskLogs ==
    { NoSheet, <<BlankTaskRow>>, <<taskHeader>>,
      <<[i \in 1..NumTaskCols |-> IF i < NumTaskCols THEN taskHeader[i] ELSE ""]>> }

\* the rows of TaskLogs below its header
TaskRows(t) == IF Len(t) = 0 THEN 0 ELSE Len(t) - 1

RECURSIVE RunPostMail(_, _, _)
RunPostMail(s, p, mailOk) ==
    IF p.pc = "done" THEN << s, p >>
    ELSE RunPostMail(PostStep(s, p, mailOk)[1], PostStep(s, p, mailOk)[2], mailOk)

RECURSIVE RunGetMail(_, _, _)
RunGetMail(s, g, mailOk) ==
    IF g.pc = "done" THEN << s, g >>
    ELSE RunGetMail(GetStep(s, g, mailOk)[1], GetStep(s, g, mailOk)[2], mailOk)

\* one POST, from its arrival to its response
LedgerPost ==
    \E e \in LedgerBodies, minted \in IdSpace, mailOk \in BOOLEAN, setHeader \in BOOLEAN :
       \E b \in {PostBegin(sheet, e, minted)} :
          \E n \in {RunPostMail(b[1], b[2], mailOk)} :
             /\ n[2].kind = "request" => Len(sheet) - 1 < MaxRows
             /\ n[2].kind = "task" => TaskRows(taskLogs) < MaxTaskRows
             /\ sheet' = n[1]
             /\ taskLogs' = doPostTaskLogs(taskLogs, e, "2024-02-02T08:00")
             /\ post' = withCors_(n[2], setHeader)
             /\ get' = Idle
             /\ UNCHANGED <<ClientVars, ReadVars, FrontVars>>

\* one GET, from its arrival to its response
LedgerGet ==
    \E q \in LedgerParameters, mailOk \in BOOLEAN :
       \E b \in {GetBegin(sheet, q)} :
          \E n \in {RunGetMail(b[1], b[2], mailOk)} :
             /\ sheet' = n[1]
             /\ get' = n[2]
             /\ post' = Idle
             /\ UNCHANGED <<taskLogs, ClientVars, ReadVars, FrontVars>>

InitLedger ==
    /\ sheet \in InitSheets /\ taskLogs \in InitTaskLogs /\ post = Idle /\ get = Idle
    /\ ClientAtRest /\ ReadInit /\ FrontAtRest

NextLedger ==
    \/ LedgerPost
    \/ LedgerGet

SpecLedger == InitLedger /\ [][NextLedger]_vars

\* the step is a POST that the handler classified as kind
PostOfKind(kind) == get' = Idle /\ post'.pc = "done" /\ post'.kind = kind

\* no operation removes a row of the Logs sheet or moves a request to
\* another row, and only a new-request POST adds a row, one per POST
RowsOnlyAddedByNewRequest ==
    /\ Len(sheet') >= Len(sheet)
    /\ \A r \in DataRows(sheet) : sheet'[r][2] = sheet[r][2]
    /\ IF PostOfKind("request") THEN Len(sheet') = Len(sheet) + 1
                                ELSE Len(sheet') = Len(sheet)

\* a task POST appends one row to TaskLogs, leaves the data rows of the
\* Logs sheet alone and mails nobody
TaskOnlyTouchesTaskLogs ==
    PostOfKind("task") =>
       /\ TaskRows(taskLogs') = TaskRows(taskLogs) + 1
       /\ \A r \in 1..TaskRows(taskLogs) : taskLogs'[r + 1] = taskLogs[r + 1]
       /\ Len(sheet') = Len(sheet)
       /\ \A r \in DataRows(sheet) : sheet'[r] = sheet[r]
       /\ post'.mails = <<>>

\* C30: over any sequence of POSTs and GETs no operation deletes a row of
\* the Logs sheet and only a new-request POST adds one, exactly one per
\* POST; a task POST appends exactly one row to TaskLogs, changes no data
\* row of the Logs sheet and sends no mail; a decision POST without a
\* requestId changes nothing.
C30_OnlyNewRequestsAddRows ==
    [][ /\ RowsOnlyAddedByNewRequest
        /\ TaskOnlyTouchesTaskLogs
        /\ (PostOfKind("decision") /\ ~Truthy(post'.requestId))
              => (sheet' = sheet /\ taskLogs' = taskLogs /\ post'.mails = <<>>) ]_vars

====
